---- MODULE Spec2Model ----
(***************************************************************************)
(* History summarizer (block-summarizer): block segmentation, block        *)
(* hashing and the two-layer summary cache, as implemented twice in the    *)
(* repository: src/index.js (browser extension: IndexedDB, SHA-256) and    *)
(* src/script.js (server plugin: cache files, md5).                        *)
(*                                                                         *)
(* Texts are sequences of one-character strings, so that Len is the        *)
(* JavaScript .length and \o is string concatenation.                      *)
(*                                                                         *)
(* Specifications:                                                         *)
(*   SpecSeg   segmentation of a chat into blocks (both implementations)   *)
(*   SpecHash  getBlockHash applied to two blocks                          *)
(*   Spec      the summary cache under interleaved get / put / clear       *)
(*   SpecPass  summarization passes over that cache, with handler calls     *)
(*   SpecPreview  preview requests over that cache                         *)
(*   SpecTrigger  the triggers of summarization and the passes in flight   *)
(*   SpecPrompt   composition of the prompt fragment                       *)
(*   SpecTrunc    truncation of the recent messages (script.js)            *)
(***************************************************************************)
EXTENDS Integers, Sequences, FiniteSets, TLC

VARIABLES
    \* --- segmentation (SpecSeg) ---
    segPc,        \* "input" | "genLoop" | "generateBlocks"
                  \*         | "scriptLoop" | "processHistory"
    segChat,      \* context.chat
    segBlockSize, \* settings.blockSize
    segHistory,   \* chatHistory, the argument of the segmentation
    segIdx,       \* number of messages the for loop has consumed
    segSt,        \* the loop's blocks, currentBlock, currentBlockLength
    segBlocks,    \* the blocks array the segmentation produced
    \* --- hashing (SpecHash) ---
    hashPc,       \* "input" | "first" | "restarted" | "second"
    hashImpl,     \* "index" | "script": whose getBlockHash is called
    blkA, blkB,   \* two blockDetails arrays
    hashA, hashB, \* their hashes
    \* --- summary cache (Spec) ---
    impl,         \* "index" | "script": the implementation running
    blockCache,   \* the in-memory Map: hash -> summary, Absent for no entry
    store,        \* the durable store (IndexedDB object store / cache
                  \* files): hash -> summary, Absent for no entry
    dbQueue,      \* durable requests issued and not yet completed, in
                  \* the order they were issued
    ret,          \* what the last step returned to its caller
    promise,      \* history: per hash, what the last completed put or
                  \* clear entitles a later get to (see Pinned, Cleared)
    \* --- summarization pass (SpecPass) ---
    pass,         \* the pass in flight or last returned: its blocks, its
                  \* blockSummaries and hasError, where it is waiting
    lastPass,     \* history: the completed pass before this one
    budget,       \* how many more handler calls and passes are explored
    \* --- preview (SpecPreview) ---
    preview,      \* currentPreviewState and the preview request in flight
    \* --- triggers (SpecTrigger) ---
    settings,     \* the settings the triggers read: enabled, apiUrl set,
                  \* triggerThreshold
    inApiCall,    \* index.js: the flag checkAndSummarize sets during a pass
    lastMessageCount,   \* index.js: message count at the last summarization
    lastSummaryContent, \* index.js: "" or the summary last composed
    runs,         \* the summarization passes in flight, oldest first
    lastTrigger,  \* what the last step did, if it was a trigger
    host,         \* the active chat and the extension prompt of the host
    \* --- prompt composition (SpecPrompt) ---
    promptPc,     \* "input" | "composed"
    promptIn,     \* blockSummaries and settings.promptTemplate
    promptOut,    \* combinedSummary and the prompt fragment
    \* --- truncation of the recent messages (SpecTrunc) ---
    truncPc,      \* "input" | "loop" | "done"
    truncIn,      \* chatHistory, settings.historySize, summaryPromptPart.length
    truncSt       \* remainingCharsForHistory and the loop's i, currentChars,
                  \* truncatedHistory

segVars  == <<segPc, segChat, segBlockSize, segHistory, segIdx, segSt, segBlocks>>
hashVars == <<hashPc, hashImpl, blkA, blkB, hashA, hashB>>
cacheVars == <<impl, blockCache, store, dbQueue, ret, promise>>
passVars == <<pass, lastPass, budget, preview>>
trigVars ==
    <<settings, inApiCall, lastMessageCount, lastSummaryContent, runs, lastTrigger, host>>
promptVars == <<promptPc, promptIn, promptOut>>
truncVars == <<truncPc, truncIn, truncSt>>
flowVars == <<trigVars, promptVars, truncVars>>
vars     == <<segVars, hashVars, cacheVars, passVars, flowVars>>

(***************************************************************************)
(* Bounds of the model and constants of the program.                       *)
(***************************************************************************)
MaxMsgs == 3            \* longest enumerated chat
MaxBlockSize == 3       \* largest enumerated settings.blockSize
MaxHashBlockLen == 2    \* longest enumerated blockDetails array
MaxInFlight == 2        \* most durable requests pending at once
MaxEnvCalls == 1        \* SpecPass: handler calls (get, edit, clear, restart)
MaxPasses == 2          \* SpecPass: passes started
MaxBlockMessages == 100 \* script.js: "currentBlock.length > 100"
DefaultBlockSize == 1000 \* settings.blockSize default

NoValue == "none"

(***************************************************************************)
(* Generic helpers.                                                        *)
(***************************************************************************)
SeqsUpTo(S, n) == UNION {[1..k -> S] : k \in 0..n}

NonEmptySeqsUpTo(S, n) == UNION {[1..k -> S] : k \in 1..n}

\* The folds over arrays below split the array in halves, which keeps the
\* evaluation shallow on arrays of a hundred elements; the result is that of
\* the left-to-right loop.
FirstHalf(s) == SubSeq(s, 1, Len(s) \div 2)

SecondHalf(s) == SubSeq(s, (Len(s) \div 2) + 1, Len(s))

RECURSIVE Join(_, _)
\* Array.prototype.join: the elements separated by sep.
Join(strs, sep) ==
    IF Len(strs) = 0 THEN <<>>
    ELSE IF Len(strs) = 1 THEN strs[1]
    ELSE Join(FirstHalf(strs), sep) \o sep \o Join(SecondHalf(strs), sep)

RECURSIVE SumLen(_)
\* Sum of mes.length over a blockDetails array.
SumLen(details) ==
    IF Len(details) = 0 THEN 0
    ELSE IF Len(details) = 1 THEN Len(details[1].mes)
    ELSE SumLen(FirstHalf(details)) + SumLen(SecondHalf(details))

RECURSIVE Flatten(_)
\* The details of all blocks, concatenated in block order.
Flatten(blocks) ==
    IF Len(blocks) = 0 THEN <<>>
    ELSE IF Len(blocks) = 1 THEN blocks[1].details
    ELSE Flatten(FirstHalf(blocks)) \o Flatten(SecondHalf(blocks))

(***************************************************************************)
(* Block hashing.                                                          *)
(***************************************************************************)
\* `${msg.is_user ? 'U' : 'C'}:${msg.mes}`
MsgContent(msg) == <<IF msg.is_user THEN "U" ELSE "C", ":">> \o msg.mes

\* A plausible slip: the speaker name becomes part of the fingerprint.
ContentStringWithName(blockDetails) ==
    Join([i \in 1..Len(blockDetails) |->
            <<blockDetails[i].name>> \o MsgContent(blockDetails[i])], <<"|">>)

\* blockDetails.map(...).join('|')
ContentString(blockDetails) ==
    Join([i \in 1..Len(blockDetails) |-> MsgContent(blockDetails[i])], <<"|">>)

\* The digests (SHA-256 in index.js, md5 in script.js) are modelled as
\* collision-free: the digest of a string is that string, tagged with the
\* algorithm.  Every collision the model shows is one of the content strings.
DigestMessage(contentString) == [alg |-> "SHA-256", of |-> contentString]

Md5Hex(contentString) == [alg |-> "md5", of |-> contentString]

\* index.js getBlockHash
GetBlockHash(blockDetails) == DigestMessage(ContentString(blockDetails))

\* script.js getBlockHash
ScriptGetBlockHash(blockDetails) == Md5Hex(ContentString(blockDetails))

(***************************************************************************)
(* Segmentation, index.js generateBlocks.                                  *)
(***************************************************************************)
BlockMsg(message) ==
    [name |-> message.name, is_user |-> message.is_user, mes |-> message.mes]

\* message.mes ? message.mes.length : 0
MessageLength(message) == Len(message.mes)

\* A plausible slip: ">=" for ">".
GenShouldCloseAtLimit(currentBlock, currentBlockLength, messageLength, blockSize) ==
    Len(currentBlock) > 0 /\ currentBlockLength + messageLength >= blockSize

\* A plausible slip: the budget is tested before the message is counted.
GenShouldCloseLate(currentBlock, currentBlockLength, messageLength, blockSize) ==
    Len(currentBlock) > 0 /\ currentBlockLength > blockSize

\* currentBlock.length > 0 && (currentBlockLength + messageLength > settings.blockSize)
GenShouldClose(currentBlock, currentBlockLength, messageLength, blockSize) ==
    Len(currentBlock) > 0 /\ currentBlockLength + messageLength > blockSize

\* A plausible slip: the block is restarted empty, as script.js does, but the
\* pending message is not pushed afterwards.
GenCloseDropsPending(st, blockMsg, messageLength) ==
    [blocks |-> Append(st.blocks, [hash |-> GetBlockHash(st.currentBlock),
                                   details |-> st.currentBlock]),
     currentBlock |-> <<>>,
     currentBlockLength |-> 0]

\* A plausible slip: the blocks array is assigned, not pushed to.
GenCloseForgets(st, blockMsg, messageLength) ==
    [blocks |-> <<[hash |-> GetBlockHash(st.currentBlock),
                   details |-> st.currentBlock]>>,
     currentBlock |-> <<blockMsg>>,
     currentBlockLength |-> messageLength]

\* The "if" branch of the loop body: emit the current block, start the next
\* one with the pending message.
GenClose(st, blockMsg, messageLength) ==
    [blocks |-> Append(st.blocks, [hash |-> GetBlockHash(st.currentBlock),
                                   details |-> st.currentBlock]),
     currentBlock |-> <<blockMsg>>,
     currentBlockLength |-> messageLength]

\* One iteration of "for (const message of chatHistory)".
GenStep(st, message, blockSize) ==
    IF message.is_system THEN st
    ELSE IF MessageLength(message) = 0 THEN st
    ELSE IF GenShouldClose(st.currentBlock, st.currentBlockLength,
                           MessageLength(message), blockSize)
         THEN GenClose(st, BlockMsg(message), MessageLength(message))
         ELSE [blocks |-> st.blocks,
               currentBlock |-> Append(st.currentBlock, BlockMsg(message)),
               currentBlockLength |-> st.currentBlockLength + MessageLength(message)]

\* let currentBlock = []; let currentBlockLength = 0; const blocks = [];
LoopStart == [blocks |-> <<>>, currentBlock |-> <<>>, currentBlockLength |-> 0]

\* After the loop: the last block is emitted if it is non-empty.
GenFinish(st) ==
    IF Len(st.currentBlock) > 0
    THEN Append(st.blocks, [hash |-> GetBlockHash(st.currentBlock),
                            details |-> st.currentBlock])
    ELSE st.blocks

(***************************************************************************)
(* Segmentation, script.js processHistoryForSummarization (first loop).    *)
(***************************************************************************)
\* currentBlock.length > 0 && (currentBlockLength + messageLength > settings.blockSize
\*                             || currentBlock.length > 100)
ScriptShouldClose(currentBlock, currentBlockLength, messageLength, blockSize) ==
    Len(currentBlock) > 0
    /\ (currentBlockLength + messageLength > blockSize
        \/ Len(currentBlock) > MaxBlockMessages)

\* One iteration: finalize the current block if needed, then push the message
\* if it has content.
ScriptStep(st, message, blockSize) ==
    LET closed ==
            IF ScriptShouldClose(st.currentBlock, st.currentBlockLength,
                                 MessageLength(message), blockSize)
            THEN [blocks |-> Append(st.blocks,
                                    [hash |-> ScriptGetBlockHash(st.currentBlock),
                                     details |-> st.currentBlock]),
                  currentBlock |-> <<>>,
                  currentBlockLength |-> 0]
            ELSE st
    IN IF MessageLength(message) > 0
       THEN [blocks |-> closed.blocks,
             currentBlock |-> Append(closed.currentBlock, BlockMsg(message)),
             currentBlockLength |-> closed.currentBlockLength + MessageLength(message)]
       ELSE closed

\* After the loop: the last remaining block is added if it has content.
ScriptFinish(st) ==
    IF Len(st.currentBlock) > 0
    THEN Append(st.blocks, [hash |-> ScriptGetBlockHash(st.currentBlock),
                            details |-> st.currentBlock])
    ELSE st.blocks

\* context.chat?.filter(msg => !msg.is_system): what onPromptInput and the
\* get_preview handler hand to processHistoryForSummarization.
FilterNonSystem(chat) == SelectSeq(chat, LAMBDA m : ~m.is_system)

(***************************************************************************)
(* SpecSeg: a chat and a block size are chosen, one of the two             *)
(* segmentations is applied.                                               *)
(***************************************************************************)
SegTexts == {<<>>, <<"a">>, <<"b", "b">>, <<"c", "c", "c">>}

SegMessages ==
    [name : {"Al"}, is_user : BOOLEAN, is_system : BOOLEAN, mes : SegTexts]

ShortMessage == [name |-> "Al", is_user |-> TRUE, is_system |-> FALSE, mes |-> <<"a">>]

\* Chats long enough for a block to collect more than MaxBlockMessages
\* messages under the default block size.
LongChats ==
    {[i \in 1..n |-> ShortMessage] :
        n \in (MaxBlockMessages + 1)..(MaxBlockMessages + MaxMsgs)}

SegIdle ==
    /\ segPc = "idle"
    /\ segChat = <<>>
    /\ segBlockSize = 0
    /\ segHistory = <<>>
    /\ segIdx = 0
    /\ segSt = LoopStart
    /\ segBlocks = <<>>

HashIdle ==
    /\ hashPc = "idle"
    /\ hashImpl = "index"
    /\ blkA = <<>>
    /\ blkB = <<>>
    /\ hashA = NoValue
    /\ hashB = NoValue

Absent == "absent"

NoHash == "nohash"          \* a missing or empty blockHash, a null currentBlockHash

NoPromise == [kind |-> "none", val |-> NoValue, durable |-> FALSE, manual |-> FALSE]

NoReturn ==
    [op |-> "none", hash |-> NoValue, val |-> NoValue, memAtCall |-> NoValue,
     consulted |-> FALSE, failed |-> FALSE, expect |-> NoPromise]

CacheIdle ==
    /\ impl = "index"
    /\ blockCache = <<>>
    /\ store = <<>>
    /\ dbQueue = <<>>
    /\ ret = NoReturn
    /\ promise = <<>>

NoTrigger == [kind |-> "none", result |-> "none"]

\* chat: the chat that is open; prompt: the text last handed to
\* setExtensionPrompt; counted: the chat lastMessageCount was taken from.
NoHost == [chat |-> "none", prompt |-> "", counted |-> "none"]

NoSettings == [enabled |-> FALSE, apiUrl |-> FALSE, triggerThreshold |-> 0]

TrigIdle ==
    /\ settings = NoSettings
    /\ inApiCall = FALSE
    /\ lastMessageCount = 0
    /\ lastSummaryContent = ""
    /\ runs = <<>>
    /\ lastTrigger = NoTrigger
    /\ host = NoHost

PromptIdle ==
    /\ promptPc = "idle"
    /\ promptIn = <<>>
    /\ promptOut = <<>>

TruncIdle ==
    /\ truncPc = "idle"
    /\ truncIn = <<>>
    /\ truncSt = <<>>

FlowIdle == TrigIdle /\ PromptIdle /\ TruncIdle

\* No pass has been started.
NoPass ==
    [pc |-> "idle", caller |-> "none", blocks |-> <<>>, log |-> <<>>,
     blockSummaries |-> <<>>, hasError |-> FALSE, clean |-> TRUE]

NoLastPass == [blocks |-> <<>>, blockSummaries |-> <<>>, ok |-> FALSE]

\* Spec explores handler calls without limit, SpecPass within a budget.
NoBudget == [limited |-> FALSE, env |-> 0, passes |-> 0, previews |-> 0]

\* What a preview request has answered: nothing yet, a block, or an error.
NoAnswer ==
    [kind |-> "none", blockIndex |-> 0, totalBlocks |-> 0,
     blockHash |-> NoValue, summary |-> NoValue, error |-> NoValue]

\* currentPreviewState as constructed (index.js), and no request in flight.
\* Of the request in flight or last answered: requested is the index asked
\* for, total the number of blocks, lookup what getSummaryFromCache returned.
\* prevDisabled and nextDisabled are the two buttons' disabled properties
\* (before the first load they come from the settings page, which is not in
\* src/; explored: disabled).
\* chat is context.chat as the preview panel of index.js finds it: whether it
\* has no message at all, and the blocks its segmentation gives.
NoPreview ==
    [pc |-> "idle", chat |-> [empty |-> TRUE, blocks |-> <<>>], blockIndex |-> 0, totalBlocks |-> 0, currentBlockHash |-> NoHash,
     allBlocks |-> <<>>, prevDisabled |-> TRUE, nextDisabled |-> TRUE,
     requested |-> 0, total |-> 0, lookup |-> NoValue, answer |-> NoAnswer,
     textarea |-> [text |-> NoValue, hash |-> NoHash]]

PassIdle ==
    /\ pass = NoPass
    /\ lastPass = NoLastPass
    /\ budget = NoBudget
    /\ preview = NoPreview

SegInit ==
    /\ segPc = "input"
    /\ \/ /\ segChat \in SeqsUpTo(SegMessages, MaxMsgs)
          /\ segBlockSize \in 1..MaxBlockSize
       \/ /\ segChat \in LongChats
          /\ segBlockSize = DefaultBlockSize
    /\ segHistory = <<>>
    /\ segIdx = 0
    /\ segSt = LoopStart
    /\ segBlocks = <<>>
    /\ HashIdle
    /\ CacheIdle
    /\ PassIdle
    /\ FlowIdle

\* index.js: generateBlocks(chat) is entered.
SegCallGenerateBlocks ==
    /\ segPc = "input"
    /\ segPc' = "genLoop"
    /\ segHistory' = segChat
    /\ segIdx' = 0
    /\ segSt' = LoopStart
    /\ UNCHANGED <<segChat, segBlockSize, segBlocks, hashVars, flowVars, cacheVars, passVars>>

\* index.js: one iteration of the for loop of generateBlocks.
SegGenIteration ==
    /\ segPc = "genLoop"
    /\ segIdx < Len(segHistory)
    /\ segSt' = GenStep(segSt, segHistory[segIdx + 1], segBlockSize)
    /\ segIdx' = segIdx + 1
    /\ UNCHANGED <<segPc, segChat, segBlockSize, segHistory, segBlocks, hashVars, flowVars, cacheVars, passVars>>

\* index.js: the loop is over, the last block is emitted, blocks is returned.
SegGenReturn ==
    /\ segPc = "genLoop"
    /\ segIdx = Len(segHistory)
    /\ segBlocks' = GenFinish(segSt)
    /\ segPc' = "generateBlocks"
    /\ UNCHANGED <<segChat, segBlockSize, segHistory, segIdx, segSt, hashVars, flowVars, cacheVars, passVars>>

\* script.js: processHistoryForSummarization(chat.filter(msg => !msg.is_system))
\* is entered, as onPromptInput and the get_preview handler call it.
SegCallProcessHistory ==
    /\ segPc = "input"
    /\ segPc' = "scriptLoop"
    /\ segHistory' = FilterNonSystem(segChat)
    /\ segIdx' = 0
    /\ segSt' = LoopStart
    /\ UNCHANGED <<segChat, segBlockSize, segBlocks, hashVars, flowVars, cacheVars, passVars>>

\* script.js: one iteration of the first for loop.
SegScriptIteration ==
    /\ segPc = "scriptLoop"
    /\ segIdx < Len(segHistory)
    /\ segSt' = ScriptStep(segSt, segHistory[segIdx + 1], segBlockSize)
    /\ segIdx' = segIdx + 1
    /\ UNCHANGED <<segPc, segChat, segBlockSize, segHistory, segBlocks, hashVars, flowVars, cacheVars, passVars>>

\* script.js: the loop is over, the last remaining block is added.
SegScriptReturn ==
    /\ segPc = "scriptLoop"
    /\ segIdx = Len(segHistory)
    /\ segBlocks' = ScriptFinish(segSt)
    /\ segPc' = "processHistory"
    /\ UNCHANGED <<segChat, segBlockSize, segHistory, segIdx, segSt, hashVars, flowVars, cacheVars, passVars>>

SegNext ==
    \/ SegCallGenerateBlocks
    \/ SegGenIteration
    \/ SegGenReturn
    \/ SegCallProcessHistory
    \/ SegScriptIteration
    \/ SegScriptReturn

SpecSeg == SegInit /\ [][SegNext]_vars

(***************************************************************************)
(* Segmentation claims.                                                    *)
(***************************************************************************)
Segmented == segPc \in {"generateBlocks", "processHistory"}

\* The input with system messages and empty-text messages removed.
KeptMessages(chat) ==
    LET kept == SelectSeq(chat, LAMBDA m : ~m.is_system /\ Len(m.mes) > 0)
    IN [i \in 1..Len(kept) |-> BlockMsg(kept[i])]

\* C1: segmentation emits no empty block, and the messages of the emitted
\* blocks, concatenated in block order, are exactly the input without its
\* system messages and its empty-text messages.
C1_BlocksPartitionKeptInput ==
    Segmented =>
        /\ \A i \in 1..Len(segBlocks) : Len(segBlocks[i].details) > 0
        /\ Flatten(segBlocks) = KeptMessages(segChat)

C1_Witness ==
    /\ Segmented
    /\ Len(segBlocks) >= 2
    /\ Len(KeptMessages(segChat)) < Len(segChat)

\* C2: every emitted block fits the block size, or is one single message
\* that is itself longer than the block size; an over-long message is whole
\* (its text is the text of an input message) and alone in its block.
C2_BlockWithinBudgetOrSingleOversized ==
    Segmented =>
        \A i \in 1..Len(segBlocks) :
            LET details == segBlocks[i].details IN
            /\ \/ SumLen(details) <= segBlockSize
               \/ Len(details) = 1 /\ Len(details[1].mes) > segBlockSize
            /\ \A k \in 1..Len(details) :
                /\ Len(details[k].mes) > segBlockSize => Len(details) = 1
                /\ \E j \in 1..Len(segChat) : segChat[j].mes = details[k].mes

C2_Witness ==
    /\ Segmented
    /\ \E i \in 1..Len(segBlocks) :
        /\ Len(segBlocks[i].details) = 1
        /\ Len(segBlocks[i].details[1].mes) > segBlockSize
    /\ \E i \in 1..Len(segBlocks) :
        /\ Len(segBlocks[i].details) >= 2
        /\ SumLen(segBlocks[i].details) = segBlockSize

\* C3 as claimed: a block is closed only when the next kept message does not
\* fit, so the length of a block plus the length of the first message of the
\* block after it exceeds the block size; and a block is never kept open
\* for a message that does not fit.
C3_ClosedOnlyOnOverflow ==
    Segmented =>
        /\ \A i \in 1..(Len(segBlocks) - 1) :
            SumLen(segBlocks[i].details) + Len(segBlocks[i + 1].details[1].mes)
                > segBlockSize
        /\ \A i \in 1..Len(segBlocks) :
            Len(segBlocks[i].details) > 1 => SumLen(segBlocks[i].details) <= segBlockSize

\* C3 amended: in script.js a block is also closed once it holds more than
\* MaxBlockMessages messages, whatever its length.
C3_ClosedOnOverflowOrMessageCap ==
    Segmented =>
        /\ \A i \in 1..(Len(segBlocks) - 1) :
            \/ SumLen(segBlocks[i].details) + Len(segBlocks[i + 1].details[1].mes)
                > segBlockSize
            \/ /\ segPc = "processHistory"
               /\ Len(segBlocks[i].details) = MaxBlockMessages + 1
        /\ \A i \in 1..Len(segBlocks) :
            /\ Len(segBlocks[i].details) > 1 => SumLen(segBlocks[i].details) <= segBlockSize
            /\ segPc = "processHistory" =>
                Len(segBlocks[i].details) <= MaxBlockMessages + 1

C3_Witness ==
    /\ segPc = "processHistory"
    /\ Len(segBlocks) = 2
    /\ Len(segBlocks[1].details) = MaxBlockMessages + 1
    /\ SumLen(segBlocks[1].details) + Len(segBlocks[2].details[1].mes) <= segBlockSize

(***************************************************************************)
(* SpecHash: getBlockHash is called on a block, and then on a second       *)
(* block, in the same session or after a restart.  getBlockHash reads no   *)
(* module state, so a restart changes nothing it depends on.               *)
(***************************************************************************)
HashTexts == {<<"a">>, <<"b">>, <<"a", "|", "C", ":", "b">>}

HashMessagesA == [name : {"Al"}, is_user : BOOLEAN, mes : HashTexts]

HashMessagesB == [name : {"Al", "Bo"}, is_user : BOOLEAN, mes : HashTexts]

HashInit ==
    /\ hashPc = "input"
    /\ hashImpl \in {"index", "script"}
    /\ blkA \in NonEmptySeqsUpTo(HashMessagesA, MaxHashBlockLen)
    /\ blkB \in NonEmptySeqsUpTo(HashMessagesB, MaxHashBlockLen)
    /\ hashA = NoValue
    /\ hashB = NoValue
    /\ SegIdle
    /\ CacheIdle
    /\ PassIdle
    /\ FlowIdle

\* getBlockHash of the implementation in use.
BlockHashOf(which, blockDetails) ==
    IF which = "index" THEN GetBlockHash(blockDetails)
    ELSE ScriptGetBlockHash(blockDetails)

\* getBlockHash(blkA)
HashFirst ==
    /\ hashPc = "input"
    /\ hashA' = BlockHashOf(hashImpl, blkA)
    /\ hashPc' = "first"
    /\ UNCHANGED <<hashImpl, blkA, blkB, hashB, segVars, cacheVars, passVars, flowVars>>

\* The page is reloaded / the server restarted: module state is rebuilt.
HashRestart ==
    /\ hashPc = "first"
    /\ hashPc' = "restarted"
    /\ UNCHANGED <<hashImpl, blkA, blkB, hashA, hashB, segVars, cacheVars, passVars, flowVars>>

\* getBlockHash(blkB)
HashSecond ==
    /\ hashPc \in {"first", "restarted"}
    /\ hashB' = BlockHashOf(hashImpl, blkB)
    /\ hashPc' = "second"
    /\ UNCHANGED <<hashImpl, blkA, blkB, hashA, segVars, cacheVars, passVars, flowVars>>

HashNext == HashFirst \/ HashRestart \/ HashSecond

SpecHash == HashInit /\ [][HashNext]_vars

(***************************************************************************)
(* Hashing claims.                                                         *)
(***************************************************************************)
\* The two blocks agree pairwise on is_user and on the text.
SamePairs(a, b) ==
    /\ Len(a) = Len(b)
    /\ \A i \in 1..Len(a) : a[i].is_user = b[i].is_user /\ a[i].mes = b[i].mes

\* C4: two blocks whose messages agree pairwise on is_user and text get the
\* same hash, whatever their speaker names, in the same session and across
\* a restart.
C4_HashDependsOnRoleAndTextOnly ==
    (hashPc = "second" /\ SamePairs(blkA, blkB)) => hashA = hashB

C4_Witness ==
    /\ hashPc = "second"
    /\ SamePairs(blkA, blkB)
    /\ Len(blkA) = 2
    /\ \E i \in 1..Len(blkA) : blkA[i].name # blkB[i].name
    /\ hashA = hashB

\* C5: two blocks whose sequences of (is_user, text) pairs differ get
\* different hashes (the digest being collision-free, different content
\* strings).
C5_DifferentBlocksDifferentHash ==
    (hashPc = "second" /\ ~SamePairs(blkA, blkB)) => hashA # hashB

(***************************************************************************)
(* The summary cache: blockCache (in memory) over the durable store.       *)
(*                                                                         *)
(* getSummaryFromCache, saveSummaryToCache and the clear handlers are      *)
(* async: each runs up to its first await of a durable request, and        *)
(* resumes when that request completes.  Other handlers run in between.    *)
(* index.js: IndexedDB runs transactions on one object store in the order  *)
(* they were created, read-only ones side by side.  openDB() is awaited    *)
(* during initialisation, before any listener is attached, so in a         *)
(* session that runs handlers dbPromise is resolved and a durable failure  *)
(* is a failing request: the promise returned from inside the try block    *)
(* rejects and the exception leaves the caller.                            *)
(* script.js: fs calls complete in any order; errors are caught.           *)
(***************************************************************************)
Hashes == {"h1", "h2"}

Summaries == {"s1", "s2"}

NotAString == "notastring"  \* a newSummary that is not a string

Threw == "threw"            \* the call ended in an exception

EmptyCache == [h \in Hashes |-> Absent]

\* promise[h]: a put of val completed (durable: with its durable write
\* done) and no put on h, and no clear, started since.
\* manual: the put was a manual edit (FALSE: the save of a pass).
Pinned(val, durable) ==
    [kind |-> "put", val |-> val, durable |-> durable, manual |-> TRUE]

\* promise[h]: a clear reported success, h was populated before it, and no
\* put ran during it or started since.
Cleared == [kind |-> "cleared", val |-> NoValue, durable |-> FALSE, manual |-> FALSE]

\* A durable request that has been issued and not completed, with the call
\* waiting for it.  expect (of a get) is promise[hash] when the get was
\* called; clean (of a put or clear) and populated (of a clear) feed promise;
\* files (of a clear_cache loop) are the files still to be unlinked.
Request(kind, hash, summary, expect, clean, populated) ==
    [kind |-> kind, hash |-> hash, summary |-> summary, expect |-> expect,
     clean |-> clean, populated |-> populated, files |-> {}, owner |-> "handler"]

Return(op, hash, val, memAtCall, consulted, failed, expect) ==
    [op |-> op, hash |-> hash, val |-> val, memAtCall |-> memAtCall,
     consulted |-> consulted, failed |-> failed, expect |-> expect]

ClearKinds == {"clear", "readdir", "unlink"}

RemoveAt(q, i) == SubSeq(q, 1, i - 1) \o SubSeq(q, i + 1, Len(q))

ReplaceAt(q, i, r) == [q EXCEPT ![i] = r]

PutInFlight(h) == \E i \in 1..Len(dbQueue) : dbQueue[i].kind = "put" /\ dbQueue[i].hash = h

AnyPutInFlight == \E i \in 1..Len(dbQueue) : dbQueue[i].kind = "put"

ClearInFlight == \E i \in 1..Len(dbQueue) : dbQueue[i].kind \in ClearKinds

\* Request i may complete now: any request under fs; under IndexedDB the
\* oldest one, or a read with only reads before it.
CanComplete(i) ==
    \/ impl = "script"
    \/ i = 1
    \/ \A j \in 1..i : dbQueue[j].kind = "get"

\* Outcomes of a durable request.
Outcomes == {"ok", "error"}

\* Outcomes of a durable read or write: also "unopened", when the database
\* cannot be opened (index.js: openDB rejects) or the cache directory cannot
\* be reached (script.js).  Explored per request.
DbOutcomes == Outcomes \cup {"unopened"}

\* The pass of lastPass completed with every block's summary in the durable
\* store, and no manual edit or clear has run since it started.
StoredAll(p) ==
    \A i \in 1..Len(p.blocks) : store[p.blocks[i]] = p.blockSummaries[i]

Archive(p) ==
    IF p.pc = "returned"
    THEN [blocks |-> p.blocks, blockSummaries |-> p.blockSummaries,
          ok |-> p.clean /\ StoredAll(p)]
    ELSE IF p.pc = "idle" THEN lastPass
    ELSE NoLastPass

\* A handler is called from outside (a click, a plugin event, a reload).
EnvCall ==
    /\ ~budget.limited \/ budget.env > 0
    /\ budget' = IF budget.limited THEN [budget EXCEPT !.env = @ - 1] ELSE budget

\* A manual edit or a clear starts: passes are no longer undisturbed.
Disturbed ==
    /\ pass' = IF pass.pc = "idle" THEN pass ELSE [pass EXCEPT !.clean = FALSE]
    /\ lastPass' = [lastPass EXCEPT !.ok = FALSE]

(***************************************************************************)
(* getSummaryFromCache                                                     *)
(***************************************************************************)
\* A plausible slip: the durable value is returned but not kept in memory.
CacheAfterDurableHitForgets(cache, hash, summaryFromDB) == cache

\* blockCache.set(hash, summaryFromDB)
CacheAfterDurableHit(cache, hash, summaryFromDB) ==
    [cache EXCEPT ![hash] = summaryFromDB]

\* getSummaryFromCache(hash) is called (by a summarization pass or a
\* preview): a hit in memory returns at once, a miss issues the durable read.
GetSummaryFromCache(hash) ==
    /\ IF blockCache[hash] # Absent
       THEN /\ ret' = Return("get", hash, blockCache[hash], blockCache[hash],
                             FALSE, FALSE, promise[hash])
            /\ UNCHANGED dbQueue
       ELSE /\ Len(dbQueue) < MaxInFlight
            /\ dbQueue' = Append(dbQueue,
                   Request("get", hash, NoValue, promise[hash], TRUE, {}))
            /\ ret' = Return("call", hash, NoValue, Absent, FALSE, FALSE, NoPromise)
    /\ EnvCall
    /\ UNCHANGED <<impl, blockCache, store, promise, segVars, hashVars, flowVars, pass, lastPass, preview>>

\* What the durable read gives getSummaryFromCache: the stored summary, null
\* when there is none, when (script.js) reading fails or when (index.js) the
\* database cannot be opened, an exception (index.js) when the request fails.
SummaryFromDB(hash, outcome) ==
    IF outcome = "ok" THEN store[hash]
    ELSE IF impl = "script" \/ outcome = "unopened" THEN Absent
    ELSE Threw

\* The durable read of a pending getSummaryFromCache completes and the
\* function resumes after its await.  (script.js awaits fs.access and then
\* fs.readFile; what it returns is what one read of the file gives at the
\* moment access fails or readFile completes.)
GetItemFromDBDone(i, outcome) ==
    LET r == dbQueue[i]
        summaryFromDB == SummaryFromDB(r.hash, outcome)
    IN
    /\ r.kind = "get"
    /\ r.owner = "handler"
    /\ CanComplete(i)
    /\ blockCache' = IF summaryFromDB \notin {Absent, Threw}
                     THEN CacheAfterDurableHit(blockCache, r.hash, summaryFromDB)
                     ELSE blockCache
    /\ ret' = Return("get", r.hash, summaryFromDB, Absent, TRUE,
                     outcome # "ok", r.expect)
    /\ dbQueue' = RemoveAt(dbQueue, i)
    /\ UNCHANGED <<impl, store, promise, segVars, hashVars, flowVars, passVars>>

(***************************************************************************)
(* saveSummaryToCache, through the manual-edit entry points:               *)
(* script.js update_summary handler, index.js saveEditedSummary.           *)
(***************************************************************************)
\* The pending requests after a put on hash has started: what earlier
\* operations were entitled to no longer holds.
QueueAfterPutStarts(hash) ==
    [i \in 1..Len(dbQueue) |->
        LET r == dbQueue[i] IN
        IF r.kind = "get" /\ (r.hash = hash \/ r.expect.kind = "cleared")
        THEN [r EXCEPT !.expect = NoPromise]
        ELSE IF (r.kind = "put" /\ r.hash = hash) \/ r.kind \in ClearKinds
        THEN [r EXCEPT !.clean = FALSE]
        ELSE r]

\* update_summary({blockHash, newSummary}) / Save clicked in the preview
\* panel with currentBlockHash = blockHash and the textarea holding newSummary.
UpdateSummary(blockHash, newSummary) ==
    /\ EnvCall
    /\ UNCHANGED <<segVars, hashVars, flowVars, preview>>
    /\ IF blockHash # NoHash /\ newSummary # NotAString
       THEN \* saveSummaryToCache: blockCache.set, then the durable write
            /\ Len(dbQueue) < MaxInFlight
            /\ blockCache' = [blockCache EXCEPT ![blockHash] = newSummary]
            /\ dbQueue' = Append(QueueAfterPutStarts(blockHash),
                   Request("put", blockHash, newSummary, NoPromise,
                           ~PutInFlight(blockHash) /\ ~ClearInFlight, {}))
            /\ promise' = [h \in Hashes |->
                   IF h = blockHash \/ promise[h].kind = "cleared"
                   THEN NoPromise ELSE promise[h]]
            /\ ret' = Return("call", blockHash, NoValue, NoValue, FALSE, FALSE, NoPromise)
            /\ Disturbed
            /\ UNCHANGED <<impl, store>>
       ELSE \* script.js: callback({success: false, ...}); index.js: return
            /\ impl = "index" => newSummary # NotAString
            /\ ret' = Return("update_summary", blockHash,
                             IF impl = "script" THEN "failure" ELSE "ignored",
                             NoValue, FALSE, FALSE, NoPromise)
            /\ UNCHANGED <<impl, blockCache, store, dbQueue, promise, pass, lastPass>>

\* What the caller of saveSummaryToCache gets once the durable write has
\* completed.  script.js catches and logs a write error, and the handler
\* calls back {success: true} either way; index.js lets the rejected
\* request escape as an exception, and drops the false that setItemInDB
\* returns when the database cannot be opened.
PutResult(outcome) ==
    IF outcome = "ok" \/ impl = "script" \/ outcome = "unopened" THEN "success"
    ELSE Threw

\* The durable write of a pending saveSummaryToCache completes.
SetItemInDBDone(i, outcome) ==
    LET r == dbQueue[i] IN
    /\ r.kind = "put"
    /\ r.owner = "handler"
    /\ CanComplete(i)
    /\ store' = IF outcome = "ok" THEN [store EXCEPT ![r.hash] = r.summary] ELSE store
    /\ ret' = Return("update_summary", r.hash, PutResult(outcome), NoValue, TRUE,
                     outcome # "ok", NoPromise)
    /\ promise' = IF r.clean
                  THEN [promise EXCEPT ![r.hash] = Pinned(r.summary, outcome = "ok")]
                  ELSE promise
    /\ dbQueue' = RemoveAt(dbQueue, i)
    /\ UNCHANGED <<impl, blockCache, segVars, hashVars, flowVars, passVars>>

(***************************************************************************)
(* Clearing the cache: index.js clearSummaryCache (the Clear button),      *)
(* script.js clear_cache handler.                                          *)
(***************************************************************************)
QueueAfterClearStarts ==
    [i \in 1..Len(dbQueue) |->
        LET r == dbQueue[i] IN
        IF r.kind = "get" /\ r.expect.kind = "put" THEN [r EXCEPT !.expect = NoPromise]
        ELSE IF r.kind = "put" THEN [r EXCEPT !.clean = FALSE]
        ELSE r]

Populated == {h \in Hashes : blockCache[h] # Absent \/ store[h] # Absent}

\* blockCache.clear(), then the first durable request: store.clear() in
\* index.js, fs.readdir(cacheDir) in script.js.
ClearCache ==
    /\ Len(dbQueue) < MaxInFlight
    /\ blockCache' = EmptyCache
    /\ dbQueue' = Append(QueueAfterClearStarts,
           Request(IF impl = "index" THEN "clear" ELSE "readdir", NoHash, NoValue,
                   NoPromise, ~AnyPutInFlight, Populated))
    /\ promise' = [h \in Hashes |->
           IF promise[h].kind = "put" THEN NoPromise ELSE promise[h]]
    /\ ret' = Return("call", NoHash, NoValue, NoValue, FALSE, FALSE, NoPromise)
    /\ Disturbed
    /\ EnvCall
    /\ UNCHANGED <<impl, store, segVars, hashVars, flowVars, preview>>

\* The promise after a clear reported success.
PromiseAfterClear(r) ==
    IF r.clean
    THEN [h \in Hashes |-> IF h \in r.populated THEN Cleared ELSE promise[h]]
    ELSE promise

\* index.js: store.clear() completes; clearSummaryCache returns true and the
\* handler shows "Cache Cleared!", or the request fails and the exception
\* leaves the handler.  (After a success the handler awaits
\* refreshPreview(), whose lookup is a GetSummaryFromCache step.)
ClearDBStoreDone(i, outcome) ==
    LET r == dbQueue[i] IN
    /\ r.kind = "clear"
    /\ CanComplete(i)
    /\ store' = IF outcome = "ok" THEN EmptyCache ELSE store
    /\ ret' = Return("clear", NoHash, IF outcome = "ok" THEN "success" ELSE Threw,
                     NoValue, TRUE, outcome # "ok", NoPromise)
    /\ promise' = IF outcome = "ok" THEN PromiseAfterClear(r) ELSE promise
    /\ dbQueue' = RemoveAt(dbQueue, i)
    /\ UNCHANGED <<impl, blockCache, segVars, hashVars, flowVars, passVars>>

\* script.js: fs.readdir completes.  With no .json file the loop is empty
\* and the handler calls back {success: true}; otherwise the first unlink is
\* issued.  An error calls back {success: false}.
ReaddirDone(i, outcome) ==
    LET r == dbQueue[i]
        files == {h \in Hashes : store[h] # Absent}
    IN
    /\ r.kind = "readdir"
    /\ CanComplete(i)
    /\ IF outcome = "ok" /\ files # {}
       THEN /\ \E f \in files :
                dbQueue' = ReplaceAt(dbQueue, i,
                    [r EXCEPT !.kind = "unlink", !.hash = f, !.files = files \ {f}])
            /\ ret' = Return("call", NoHash, NoValue, NoValue, FALSE, FALSE, NoPromise)
            /\ UNCHANGED promise
       ELSE /\ dbQueue' = RemoveAt(dbQueue, i)
            /\ ret' = Return("clear", NoHash,
                             IF outcome = "ok" THEN "success" ELSE "failure",
                             NoValue, TRUE, outcome # "ok", NoPromise)
            /\ promise' = IF outcome = "ok" THEN PromiseAfterClear(r) ELSE promise
    /\ UNCHANGED <<impl, blockCache, store, segVars, hashVars, flowVars, passVars>>

\* script.js: fs.unlink of the current file completes.  Removed: the loop
\* goes on to the next file, or ends with {success: true}.  The file is no
\* longer there (ENOENT): the catch block calls back {success: true}.  Any
\* other error: {success: false}.  Both errors end the loop.
UnlinkDone(i, outcome) ==
    LET r == dbQueue[i]
        rest == r.files
    IN
    /\ r.kind = "unlink"
    /\ CanComplete(i)
    /\ IF store[r.hash] # Absent /\ outcome = "ok" /\ rest # {}
       THEN /\ store' = [store EXCEPT ![r.hash] = Absent]
            /\ \E f \in rest :
                dbQueue' = ReplaceAt(dbQueue, i,
                    [r EXCEPT !.hash = f, !.files = rest \ {f}])
            /\ ret' = Return("call", NoHash, NoValue, NoValue, FALSE, FALSE, NoPromise)
            /\ UNCHANGED promise
       ELSE LET enoent == store[r.hash] = Absent
                success == enoent \/ outcome = "ok"
            IN
            /\ store' = IF ~enoent /\ outcome = "ok"
                        THEN [store EXCEPT ![r.hash] = Absent] ELSE store
            /\ dbQueue' = RemoveAt(dbQueue, i)
            /\ ret' = Return("clear", NoHash, IF success THEN "success" ELSE "failure",
                             NoValue, TRUE, ~success, NoPromise)
            /\ promise' = IF success THEN PromiseAfterClear(r) ELSE promise
    /\ UNCHANGED <<impl, blockCache, segVars, hashVars, flowVars, passVars>>

(***************************************************************************)
(* Restart: the page is reloaded / the server restarted.  Module state is  *)
(* rebuilt (blockCache = new Map()), pending calls are gone, the durable   *)
(* store survives.                                                         *)
(***************************************************************************)
Restart ==
    /\ blockCache' = EmptyCache
    /\ dbQueue' = <<>>
    /\ promise' = [h \in Hashes |->
           IF promise[h].kind = "put" /\ ~promise[h].durable
           THEN NoPromise ELSE promise[h]]
    /\ ret' = Return("restart", NoHash, NoValue, NoValue, FALSE, FALSE, NoPromise)
    /\ pass' = NoPass
    /\ lastPass' = Archive(pass)
    /\ preview' = NoPreview
    /\ EnvCall
    /\ UNCHANGED <<impl, store, segVars, hashVars, flowVars>>

\* A session starts: blockCache is empty, the durable store holds what
\* earlier sessions left.
Init ==
    /\ impl \in {"index", "script"}
    /\ blockCache = EmptyCache
    /\ store \in [Hashes -> Summaries \cup {Absent}]
    /\ dbQueue = <<>>
    /\ ret = NoReturn
    /\ promise = [h \in Hashes |-> NoPromise]
    /\ SegIdle
    /\ HashIdle
    /\ PassIdle
    /\ FlowIdle

Next ==
    \/ \E h \in Hashes : GetSummaryFromCache(h)
    \/ \E i \in 1..Len(dbQueue), o \in DbOutcomes : GetItemFromDBDone(i, o)
    \/ \E h \in Hashes \cup {NoHash}, t \in Summaries \cup {NotAString} :
          UpdateSummary(h, t)
    \/ \E i \in 1..Len(dbQueue), o \in DbOutcomes : SetItemInDBDone(i, o)
    \/ ClearCache
    \/ \E i \in 1..Len(dbQueue), o \in Outcomes : ClearDBStoreDone(i, o)
    \/ \E i \in 1..Len(dbQueue), o \in Outcomes : ReaddirDone(i, o)
    \/ \E i \in 1..Len(dbQueue), o \in Outcomes : UnlinkDone(i, o)
    \/ Restart

Spec == Init /\ [][Next]_vars

(***************************************************************************)
(* ret describes the step just taken: every action sets it.                *)
(***************************************************************************)
GetReturned == ret.op = "get"

\* C6 (as stated): getSummaryFromCache(h) returns the in-memory value when
\* the in-memory layer holds h, without consulting the durable store;
\* otherwise, when the durable store holds h, it returns the durable value
\* and has stored it in memory under h; otherwise it returns absent and
\* leaves both layers unchanged.
C6_GetThreeBranches ==
    [][ret'.op = "get" =>
         IF ret'.memAtCall # Absent
         THEN ret'.val = ret'.memAtCall /\ ~ret'.consulted
         ELSE IF store[ret'.hash] # Absent
         THEN ret'.val = store[ret'.hash] /\ blockCache'[ret'.hash] = store[ret'.hash]
         ELSE ret'.val = Absent /\ UNCHANGED <<blockCache, store>>]_vars

\* C6 (amended): as above when the durable read succeeds; when the durable
\* read fails, getSummaryFromCache returns absent (script.js; index.js when
\* the database cannot be opened) or ends in an exception (index.js when the
\* request errors), and leaves both layers unchanged, whether or not the
\* durable store holds h.
C6_GetThreeBranchesUnlessReadFails ==
    [][ret'.op = "get" =>
         IF ret'.memAtCall # Absent
         THEN ret'.val = ret'.memAtCall /\ ~ret'.consulted
         ELSE IF ret'.failed
         THEN /\ ret'.val \in {Absent, Threw}
              /\ impl = "script" => ret'.val = Absent
              /\ UNCHANGED <<blockCache, store>>
         ELSE IF store[ret'.hash] # Absent
         THEN ret'.val = store[ret'.hash] /\ blockCache'[ret'.hash] = store[ret'.hash]
         ELSE ret'.val = Absent /\ UNCHANGED <<blockCache, store>>]_vars

\* A get missed in memory, read the durable store, returned the summary
\* found there, and memory now holds it.
C6_Witness ==
    /\ GetReturned
    /\ ret.consulted
    /\ ~ret.failed
    /\ ret.val \in Summaries
    /\ blockCache[ret.hash] = ret.val
    /\ store[ret.hash] = ret.val

\* C7: after saveSummaryToCache(h, s) has completed with a successful
\* durable write, and no later put or clear touches h, getSummaryFromCache(h)
\* returns s, in the same session and after a restart (a get whose own
\* durable read fails is left aside).
C7_RoundTrip ==
    (GetReturned /\ ret.expect.kind = "put" /\ ret.expect.durable /\ ~ret.failed)
        => ret.val = ret.expect.val

\* C8: when the durable write of saveSummaryToCache(h, s) fails, the
\* in-memory entry h -> s is kept, so getSummaryFromCache(h) returns s for
\* the rest of the session (until a later put or clear).
C8_KeptAfterFailedWrite ==
    (GetReturned /\ ret.expect.kind = "put" /\ ~ret.expect.durable)
        => ret.val = ret.expect.val

\* C9: the caller of a put is told success only when the durable write
\* succeeded; a rejected durable write gives a failure result.
C9_WriteFailureReported ==
    (ret.op = "update_summary" /\ ret.consulted /\ ret.val = "success") => ~ret.failed

\* C10: after a clear that reported success, with no put running during it
\* or after it, getSummaryFromCache(h) returns absent for every h that was
\* populated in either layer before the clear (a get whose own durable read
\* fails is left aside).
C10_AbsentAfterClear ==
    (GetReturned /\ ret.expect.kind = "cleared" /\ ~ret.failed) => ret.val = Absent

\* C11: clear empties the in-memory layer, and reports success only when no
\* durable entry remains: a clear that failed entirely or stopped part-way
\* reports failure.  (Entries that were populated before a clear with no put
\* during or after it are the ones promise marks as cleared.)
C11_SuccessOnlyWhenNothingRemains ==
    (ret.op = "clear" /\ ret.val = "success")
        => \A h \in Hashes : promise[h].kind = "cleared" => store[h] = Absent

(***************************************************************************)
(* The summarization pass: index.js summarizeAllBlocks, the loop of        *)
(* script.js processHistoryForSummarization.  For each block in turn:      *)
(* look the hash up, on null call the endpoint, on success save.  The      *)
(* pass runs on without interruption while its lookups hit in memory, and  *)
(* waits at a durable read, at the endpoint, at a durable write and (in    *)
(* script.js, after a failure) at a 200 ms timer.                          *)
(***************************************************************************)
MaxBlocks == 2

\* The blocks arrays passed in, each block standing for its hash (two blocks
\* of equal content have equal hashes).
BlockLists == NonEmptySeqsUpTo(Hashes, MaxBlocks)

\* What the endpoint does with a request.
ApiOutcomes == {"ok", "nosummary", "http", "network"}

HttpErrorText == "[Error: API response 500]"

NetworkErrorText == "[Error: Network/Fetch failed]"

\* callSummarizationApi: the summary, null (Absent), or in index.js an
\* error text.
CallSummarizationApi(outcome, summary) ==
    IF outcome = "ok" THEN summary
    ELSE IF impl = "index" /\ outcome = "http" THEN HttpErrorText
    ELSE IF impl = "index" /\ outcome = "network" THEN NetworkErrorText
    ELSE Absent

\* summary.startsWith('[Error:')
StartsWithError(summary) == summary \in {HttpErrorText, NetworkErrorText}

\* A plausible slip: only null counts as a failure.
ApiFailedOnlyNull(summary) == summary = Absent

\* The else branch of "summary !== null && !summary.startsWith('[Error:')"
\* (index.js), of "summary !== null" (script.js).
ApiFailed(summary) ==
    \/ summary = Absent
    \/ impl = "index" /\ StartsWithError(summary)

\* The spec's placeholder text for block n.
FailedPlaceholder(n) == "[Summary generation failed for block " \o ToString(n) \o "]"

\* A plausible slip: the failed block is pushed as it came back (null).
FailureEntryNone(summary, n) == Absent

\* A plausible slip: the flag is not raised.
HasErrorUnchanged(hasError) == hasError

\* hasError = true (index.js; script.js keeps no flag)
HasErrorAfterFailure(hasError) == IF impl = "index" THEN TRUE ELSE hasError

\* What the pass pushes for a failed block; n is i + 1.
FailureEntry(summary, n) ==
    IF impl = "index"
    THEN IF summary # Absent THEN summary ELSE FailedPlaceholder(n)
    ELSE "[Error summarizing block " \o ToString(n) \o "]"

\* History of one block of the pass: what the lookup returned, whether its
\* durable read failed, how many times the client was called, what the call
\* gave ("none": no answer, "failed", or the summary), whether the durable
\* write failed.
LogEntry(lookup, readFailed) ==
    [lookup |-> lookup, readFailed |-> readFailed,
     calls |-> 0, api |-> "none", writeFailed |-> FALSE]

\* A plausible slip: the client is called whatever the lookup returned.
NeedsClientAlways(summary) == TRUE

\* if (summary === null)
NeedsClient(summary) == summary = Absent

\* The block the pass is at (i + 1), and its hash.
PassAt(p) == Len(p.blockSummaries) + 1

PassHash(p) == p.blocks[PassAt(p)]

\* The loop from block i on, as far as it runs without waiting: blocks that
\* hit in memory are pushed; it stops at the first miss or at the end.
RECURSIVE PassRun(_, _, _)
PassRun(p, cache, prom) ==
    IF PassAt(p) > Len(p.blocks) THEN [p EXCEPT !.pc = "returned"]
    ELSE LET summary == cache[PassHash(p)] IN
         IF summary # Absent
         THEN PassRun([p EXCEPT
                  !.log = Append(@, LogEntry(summary, FALSE)),
                  !.blockSummaries = Append(@, summary)], cache, prom)
         ELSE [p EXCEPT !.pc = "lookup"]

\* The pass goes on from p; at a miss it issues the durable read.
PassResume(p, cache, prom, queue) ==
    LET q == PassRun(p, cache, prom) IN
    /\ pass' = q
    /\ IF q.pc = "lookup"
       THEN /\ Len(queue) < MaxInFlight
            /\ dbQueue' = Append(queue,
                   [Request("get", PassHash(q), NoValue, prom[PassHash(q)], TRUE, {})
                       EXCEPT !.owner = "pass"])
       ELSE dbQueue' = queue
    /\ ret' = Return("pass", NoHash, q.pc, NoValue, FALSE, FALSE, NoPromise)

PassEnded == pass.pc \in {"idle", "returned", "threw"}

\* summarizeAllBlocks(blocks) / the loop of processHistoryForSummarization
\* is entered (from checkAndSummarize, onPromptInput).  Explored: a pass
\* over any blocks, and passes over the same blocks after it.
SummarizeAllBlocks(blocks) ==
    /\ PassEnded
    /\ lastPass.blocks # <<>> => blocks = lastPass.blocks
    /\ pass.pc # "idle" => blocks = pass.blocks
    /\ budget.passes > 0
    /\ budget' = [budget EXCEPT !.passes = @ - 1]
    /\ lastPass' = Archive(pass)
    /\ PassResume([NoPass EXCEPT !.caller = "trigger", !.blocks = blocks,
                                 !.clean = ~AnyPutInFlight /\ ~ClearInFlight],
                  blockCache, promise, dbQueue)
    /\ UNCHANGED <<impl, blockCache, store, promise, preview, segVars, hashVars, flowVars>>

\* The durable read of the pass's lookup completes.
PassGetItemDone(i, outcome) ==
    LET r == dbQueue[i]
        summaryFromDB == SummaryFromDB(r.hash, outcome)
        entry == LogEntry(summaryFromDB, outcome # "ok")
    IN
    /\ r.kind = "get"
    /\ r.owner = "pass"
    /\ CanComplete(i)
    /\ IF summaryFromDB = Threw
       THEN \* index.js: the exception leaves summarizeAllBlocks
            /\ pass' = [pass EXCEPT !.pc = "threw"]
            /\ dbQueue' = RemoveAt(dbQueue, i)
            /\ ret' = Return("pass", NoHash, "threw", NoValue, TRUE, TRUE, NoPromise)
            /\ UNCHANGED blockCache
       ELSE IF ~NeedsClient(summaryFromDB)
       THEN /\ blockCache' = IF summaryFromDB # Absent
                             THEN CacheAfterDurableHit(blockCache, r.hash, summaryFromDB)
                             ELSE blockCache
            /\ PassResume([pass EXCEPT !.log = Append(@, entry),
                                       !.blockSummaries = Append(@, summaryFromDB)],
                          blockCache', promise, RemoveAt(dbQueue, i))
       ELSE \* summary === null: callSummarizationApi(block.details)
            /\ pass' = [pass EXCEPT !.pc = "api",
                   !.log = Append(@, [entry EXCEPT !.calls = @ + 1])]
            /\ dbQueue' = RemoveAt(dbQueue, i)
            /\ ret' = Return("pass", r.hash, "api", NoValue, TRUE, outcome # "ok", NoPromise)
            /\ UNCHANGED blockCache
    /\ UNCHANGED <<impl, store, promise, lastPass, budget, preview, segVars, hashVars, flowVars>>

\* callSummarizationApi returns.
PassApiDone(outcome, text) ==
    LET n == PassAt(pass)
        hash == PassHash(pass)
        summary == CallSummarizationApi(outcome, text)
        logged == [pass EXCEPT
                      !.log[n].api = IF ApiFailed(summary) THEN "failed" ELSE summary]
    IN
    /\ pass.pc = "api"
    /\ IF ~ApiFailed(summary)
       THEN \* saveSummaryToCache(block.hash, summary)
            /\ Len(dbQueue) < MaxInFlight
            /\ blockCache' = [blockCache EXCEPT ![hash] = summary]
            /\ dbQueue' = Append(QueueAfterPutStarts(hash),
                   [Request("put", hash, summary, NoPromise,
                            ~PutInFlight(hash) /\ ~ClearInFlight, {})
                       EXCEPT !.owner = "pass"])
            /\ promise' = [h \in Hashes |->
                   IF h = hash \/ promise[h].kind = "cleared"
                   THEN NoPromise ELSE promise[h]]
            /\ pass' = [logged EXCEPT !.pc = "save"]
            /\ ret' = Return("pass", hash, "save", NoValue, FALSE, FALSE, NoPromise)
       ELSE LET failed == [logged EXCEPT
                    !.blockSummaries = Append(@, FailureEntry(summary, n)),
                    !.hasError = HasErrorAfterFailure(@)]
            IN
            /\ IF impl = "index"
               THEN PassResume(failed, blockCache, promise, dbQueue)
               ELSE \* script.js: await setTimeout 200 after a failure
                    /\ pass' = [failed EXCEPT !.pc = "delay"]
                    /\ ret' = Return("pass", hash, "delay", NoValue, FALSE, FALSE, NoPromise)
                    /\ UNCHANGED dbQueue
            /\ UNCHANGED <<blockCache, promise>>
    /\ UNCHANGED <<impl, store, lastPass, budget, preview, segVars, hashVars, flowVars>>

\* script.js: the timer after a failed block fires.
PassDelayDone ==
    /\ pass.pc = "delay"
    /\ PassResume(pass, blockCache, promise, dbQueue)
    /\ UNCHANGED <<impl, blockCache, store, promise, lastPass, budget, preview, segVars, hashVars, flowVars>>

\* The durable write of the pass's saveSummaryToCache completes.
PassSetItemDone(i, outcome) ==
    LET r == dbQueue[i]
        n == PassAt(pass)
        logged == [pass EXCEPT !.log[n].writeFailed = outcome # "ok"]
    IN
    /\ r.kind = "put"
    /\ r.owner = "pass"
    /\ CanComplete(i)
    /\ store' = IF outcome = "ok" THEN [store EXCEPT ![r.hash] = r.summary] ELSE store
    /\ promise' = IF r.clean
                  THEN [promise EXCEPT ![r.hash] =
                           [Pinned(r.summary, outcome = "ok") EXCEPT !.manual = FALSE]]
                  ELSE promise
    /\ IF PutResult(outcome) = Threw
       THEN \* index.js: the exception leaves summarizeAllBlocks
            /\ pass' = [logged EXCEPT !.pc = "threw"]
            /\ dbQueue' = RemoveAt(dbQueue, i)
            /\ ret' = Return("pass", NoHash, "threw", NoValue, TRUE, TRUE, NoPromise)
       ELSE PassResume([logged EXCEPT !.blockSummaries = Append(@, r.summary)],
                       blockCache, promise', RemoveAt(dbQueue, i))
    /\ UNCHANGED <<impl, blockCache, lastPass, budget, preview, segVars, hashVars, flowVars>>

PassNext ==
    \/ Next
    \/ \E blocks \in BlockLists : SummarizeAllBlocks(blocks)
    \/ \E i \in 1..Len(dbQueue), o \in DbOutcomes : PassGetItemDone(i, o)
    \/ \E o \in ApiOutcomes, t \in Summaries : PassApiDone(o, t)
    \/ PassDelayDone
    \/ \E i \in 1..Len(dbQueue), o \in DbOutcomes : PassSetItemDone(i, o)

\* What earlier sessions left in the durable store.
PassStores == {EmptyCache, [EmptyCache EXCEPT !["h1"] = "s1"]}

\* As Init, with the exploration budget of SpecPass.
PassInit ==
    /\ impl \in {"index", "script"}
    /\ blockCache = EmptyCache
    /\ store \in PassStores
    /\ dbQueue = <<>>
    /\ ret = NoReturn
    /\ promise = [h \in Hashes |-> NoPromise]
    /\ pass = NoPass
    /\ lastPass = NoLastPass
    /\ budget = [limited |-> TRUE, env |-> MaxEnvCalls, passes |-> MaxPasses,
                 previews |-> 0]
    /\ preview = NoPreview
    /\ SegIdle
    /\ HashIdle
    /\ FlowIdle

SpecPass == PassInit /\ [][PassNext]_vars

(***************************************************************************)
(* Claims about the pass.                                                  *)
(***************************************************************************)
PassReturned == pass.pc = "returned"

Processed == 1..Len(pass.blockSummaries)

ClientFailed(i) == pass.log[i].api = "failed"

ClientSucceeded(i) == pass.log[i].api \in Summaries

LookupHit(i) == pass.log[i].lookup # Absent

\* The texts a failed block is given.
IsFailureText(summary, n) ==
    IF impl = "index"
    THEN summary \in {HttpErrorText, NetworkErrorText, FailedPlaceholder(n)}
    ELSE summary = "[Error summarizing block " \o ToString(n) \o "]"

\* C12: a pass returns one entry per block, in block order: summaries[i] is
\* the cached summary the lookup of blocks[i] returned, or the summary the
\* client generated for it, or a failure text when the client failed.
C12_OneSummaryPerBlockInOrder ==
    /\ Len(pass.blockSummaries) <= Len(pass.log)
    /\ Len(pass.log) <= Len(pass.blocks)
    /\ PassReturned => Len(pass.blockSummaries) = Len(pass.blocks)
    /\ \A i \in Processed :
          IF LookupHit(i) THEN pass.blockSummaries[i] = pass.log[i].lookup
          ELSE IF ClientSucceeded(i) THEN pass.blockSummaries[i] = pass.log[i].api
          ELSE ClientFailed(i) /\ IsFailureText(pass.blockSummaries[i], i)

\* A pass over two blocks returned: one was cached, the client failed for
\* the other.
C12_Witness ==
    /\ PassReturned
    /\ Len(pass.blocks) = 2
    /\ \E i, j \in Processed : LookupHit(i) /\ ClientFailed(j)

C14_ClientIffLookupAbsent ==
    \A i \in 1..Len(pass.log) :
        /\ pass.log[i].calls = (IF pass.log[i].lookup = Absent THEN 1 ELSE 0)
        /\ LookupHit(i) => pass.log[i].api = "none"
        /\ pass.log[i].api # "none" => pass.log[i].calls = 1

\* A returned pass with one block found in the cache and one block the
\* client was called for.
C14_Witness ==
    /\ PassReturned
    /\ Len(pass.blocks) = 2
    /\ \E i, j \in Processed :
           /\ LookupHit(i) /\ pass.log[i].calls = 0
           /\ pass.log[j].lookup = Absent /\ pass.log[j].calls = 1
                /\ pass.log[j].api # "none"

\* Every entry of the pass was written by the pass during a client call
\* that succeeded, or was held by both layers when the lookup hit.
NoFaultInPass ==
    \A i \in 1..Len(pass.log) :
        /\ ~ClientFailed(i)
        /\ ~pass.log[i].writeFailed

\* C15: after a pass in which every client call succeeded and every durable
\* write was accepted, with no clear or manual edit during it, both layers
\* hold, for the hash of every block the client summarized, the summary the
\* pass returned for it.
C15_CacheHoldsPassResults ==
    (PassReturned /\ pass.clean /\ NoFaultInPass) =>
        \A i \in Processed :
            ClientSucceeded(i) =>
                /\ blockCache[pass.blocks[i]] = pass.blockSummaries[i]
                /\ store[pass.blocks[i]] = pass.blockSummaries[i]

\* C16: a pass completed with every block summarized and durably stored;
\* a later pass over the same blocks, with no clear or manual edit since and
\* none of its durable reads failing, calls the client for no block and
\* returns the same summaries in the same order.
C16_ReusedAcrossPasses ==
    (/\ PassReturned
     /\ pass.clean
     /\ lastPass.ok
     /\ pass.blocks = lastPass.blocks
     /\ \A i \in Processed : ~pass.log[i].readFailed)
        => /\ \A i \in Processed : LookupHit(i)
           /\ pass.blockSummaries = lastPass.blockSummaries

\* The pass ended in an exception raised by the durable read of a lookup.
ReadThrew == pass.pc = "threw" /\ Len(pass.log) = Len(pass.blockSummaries)

\* The pass ended in an exception raised by the durable write of a save.
WriteThrew == pass.pc = "threw" /\ Len(pass.log) > Len(pass.blockSummaries)

\* C24: a failure of the durable read of a lookup makes the lookup return
\* absent, the pass calls the client for the block, and no exception leaves
\* the pass because of it.
C24_ReadFailureIsAMiss ==
    /\ ~ReadThrew
    /\ \A i \in 1..Len(pass.log) :
           pass.log[i].readFailed =>
               pass.log[i].lookup = Absent /\ pass.log[i].calls = 1

\* C25: a failure of the durable write of a save does not abort the pass:
\* the pass goes on to the remaining blocks, and the summary whose write
\* failed is the one returned for its block.
C25_WriteFailureDoesNotAbort ==
    /\ ~WriteThrew
    /\ \A i \in Processed :
           pass.log[i].writeFailed => pass.blockSummaries[i] = pass.log[i].api

\* C30: a completed manual edit of h is not replaced by a summarization
\* pass: no step of a pass changes the in-memory entry the edit left.
C30_EditSurvivesPass ==
    [][\A h \in Hashes :
          (/\ promise[h].kind = "put"
           /\ promise[h].manual
           /\ blockCache[h] = promise[h].val
           /\ ret'.op = "pass")
              => blockCache'[h] = promise[h].val]_vars

\* C19: once updateSummary(h, t) has completed, with no later write or clear
\* on h, getSummaryFromCache(h) returns t (a get whose own durable read
\* fails is left aside).
C19_EditIsWhatGetReturns ==
    (GetReturned /\ ret.expect.kind = "put" /\ ~ret.failed) => ret.val = ret.expect.val

\* C20: updateSummary with a missing or empty hash, or with a new summary
\* that is not a string, reports an explicit failure to its caller.
C20_MalformedUpdateReported ==
    (ret.op = "update_summary" /\ ~ret.consulted) => ret.val = "failure"

(***************************************************************************)
(* Preview: the get_preview handler of script.js, loadPreview of index.js  *)
(* with its callers (refreshPreview, the previous / next buttons).         *)
(***************************************************************************)
MaxPreviews == 3

\* The blocks of the chat a preview is asked for; <<>> for a chat without
\* messages to summarize.
ChatBlocks == SeqsUpTo(Hashes, MaxBlocks)

PreviewIndices == (0 - 1)..MaxBlocks

NoHistoryError == "No history to process."

InvalidIndexError == "Invalid block index"

NoChatError == "No chat history available for preview."

\* The text shown for a block that has no cached summary.
PreviewPlaceholder ==
    IF impl = "script" THEN "[Summary not yet cached or generated]"
    ELSE "[Summary not cached. Edit and save to create, or run summarization.]"

\* data.blockIndex || 0
BlockIndexOrZero(given, value) == IF given THEN value ELSE 0

\* Math.max(0, Math.min(blockIndex, totalBlocks - 1))
ClampedIndex(blockIndex, totalBlocks) ==
    LET least == IF blockIndex < totalBlocks - 1 THEN blockIndex ELSE totalBlocks - 1
    IN IF least > 0 THEN least ELSE 0

\* !(blockIndex < 0 || blockIndex >= blocks.length)
IndexInRange(blockIndex, totalBlocks) == ~(blockIndex < 0 \/ blockIndex >= totalBlocks)

PreviewInFlight == preview.pc \in {"pass", "lookup"}

\* A preview is asked for from outside (a click, a plugin event).
PreviewCall ==
    /\ ~PreviewInFlight
    /\ budget.previews > 0
    /\ budget' = [budget EXCEPT !.previews = @ - 1]

ErrorAnswer(error) == [NoAnswer EXCEPT !.kind = "error", !.error = error]

BlockAnswer(blockIndex, totalBlocks, blockHash, summary) ==
    [NoAnswer EXCEPT !.kind = "block", !.blockIndex = blockIndex,
                     !.totalBlocks = totalBlocks, !.blockHash = blockHash,
                     !.summary = summary]

\* What the preview shows as the summary, given what the lookup returned.
SummaryShown(summary) == IF summary = Absent THEN PreviewPlaceholder ELSE summary

\* let summary = await getSummaryFromCache(targetBlock.hash), from the
\* preview p for block idx: a hit in memory answers at once, a miss issues
\* the durable read.  index.js has shown the block's indicator and text
\* before it waits; script.js calls back only after it.
\* index.js $('#histSumm_summaryPreview').val(summary): the text in the
\* editor, with the block it was loaded for.
SummaryPreview(textarea, hash, summary) ==
    IF impl = "index" THEN [text |-> summary, hash |-> hash] ELSE textarea

PreviewLookup(p, idx, hash) ==
    IF blockCache[hash] # Absent
    THEN /\ preview' = [p EXCEPT !.pc = "shown", !.lookup = blockCache[hash],
                !.answer = BlockAnswer(idx, p.total, hash, blockCache[hash]),
                !.textarea = SummaryPreview(@, hash, blockCache[hash])]
         /\ ret' = Return("preview", hash, blockCache[hash], blockCache[hash],
                          FALSE, FALSE, NoPromise)
         /\ UNCHANGED dbQueue
    ELSE /\ Len(dbQueue) < MaxInFlight
         /\ dbQueue' = Append(dbQueue,
                [Request("get", hash, NoValue, promise[hash], TRUE, {})
                    EXCEPT !.owner = "preview"])
         /\ preview' = [p EXCEPT !.pc = "lookup", !.lookup = NoValue,
                !.answer = IF impl = "index"
                           THEN BlockAnswer(idx, p.total, hash, NoValue)
                           ELSE NoAnswer]
         /\ ret' = Return("preview", hash, "lookup", Absent, FALSE, FALSE, NoPromise)

\* index.js loadPreview(blockIndex), entered with currentPreviewState p, up
\* to its await of getSummaryFromCache.
LoadPreview(p, chatEmpty, chatBlocks, blockIndex) ==
    LET asked == [p EXCEPT !.requested = blockIndex, !.total = 0,
                           !.lookup = NoValue, !.answer = NoAnswer]
        generated == IF p.allBlocks = <<>>
                     THEN [asked EXCEPT !.allBlocks = chatBlocks,
                                        !.totalBlocks = Len(chatBlocks)]
                     ELSE asked
        currentIdx == ClampedIndex(blockIndex, generated.totalBlocks)
        targetHash == generated.allBlocks[currentIdx + 1]
    IN
    IF chatEmpty
    THEN /\ preview' = [asked EXCEPT !.pc = "error", !.answer = ErrorAnswer(NoChatError)]
         /\ ret' = Return("preview", NoHash, "error", NoValue, FALSE, FALSE, NoPromise)
         /\ UNCHANGED dbQueue
    ELSE IF generated.totalBlocks = 0
    THEN /\ preview' = [generated EXCEPT !.pc = "silent"]
         /\ ret' = Return("preview", NoHash, "silent", NoValue, FALSE, FALSE, NoPromise)
         /\ UNCHANGED dbQueue
    ELSE PreviewLookup([generated EXCEPT
                           !.blockIndex = currentIdx,
                           !.currentBlockHash = targetHash,
                           !.prevDisabled = (currentIdx = 0),
                           !.nextDisabled = (currentIdx = generated.totalBlocks - 1),
                           !.total = generated.totalBlocks],
                       currentIdx, targetHash)

\* index.js: the chat the page shows changes (another chat is opened,
\* messages are added or deleted).  onChatChanged, the CHAT_CHANGED handler,
\* reapplies the prompt and does not touch currentPreviewState.
ChatChanges(chatEmpty, chatBlocks) ==
    /\ impl = "index"
    /\ chatEmpty => chatBlocks = <<>>
    /\ preview.chat # [empty |-> chatEmpty, blocks |-> chatBlocks]
    /\ preview' = [preview EXCEPT !.chat = [empty |-> chatEmpty, blocks |-> chatBlocks]]
    /\ ret' = Return("chat", NoHash, NoValue, NoValue, FALSE, FALSE, NoPromise)
    /\ UNCHANGED <<impl, blockCache, store, dbQueue, promise, pass, lastPass, budget,
                   segVars, hashVars, flowVars>>

\* index.js refreshPreview (the refresh button, opening the drawer, after a
\* successful clear): the blocks are generated anew and the stored index is
\* asked for.
RefreshPreview ==
    /\ impl = "index"
    /\ PreviewCall
    /\ LoadPreview([preview EXCEPT !.allBlocks = <<>>], preview.chat.empty,
                   preview.chat.blocks, preview.blockIndex)
    /\ UNCHANGED <<impl, blockCache, store, promise, pass, lastPass, segVars, hashVars, flowVars>>

\* index.js: the previous-block button is clicked.
PrevBlock ==
    /\ impl = "index"
    /\ ~preview.prevDisabled
    /\ PreviewCall
    /\ LoadPreview(preview, preview.chat.empty, preview.chat.blocks,
                   preview.blockIndex - 1)
    /\ UNCHANGED <<impl, blockCache, store, promise, pass, lastPass, segVars, hashVars, flowVars>>

\* index.js: the next-block button is clicked.
NextBlock ==
    /\ impl = "index"
    /\ ~preview.nextDisabled
    /\ PreviewCall
    /\ LoadPreview(preview, preview.chat.empty, preview.chat.blocks,
                   preview.blockIndex + 1)
    /\ UNCHANGED <<impl, blockCache, store, promise, pass, lastPass, segVars, hashVars, flowVars>>

\* script.js get_preview handler, up to its await of
\* processHistoryForSummarization(chatHistory): the summarization pass over
\* the chat's blocks is started.
GetPreview(chatBlocks, given, value) ==
    LET asked == [preview EXCEPT !.requested = BlockIndexOrZero(given, value),
                                 !.total = 0, !.lookup = NoValue, !.answer = NoAnswer]
    IN
    /\ impl = "script"
    /\ PassEnded
    /\ PreviewCall
    /\ IF chatBlocks = <<>>
       THEN /\ preview' = [asked EXCEPT !.pc = "error",
                                        !.answer = ErrorAnswer(NoHistoryError)]
            /\ ret' = Return("preview", NoHash, "error", NoValue, FALSE, FALSE, NoPromise)
            /\ UNCHANGED <<dbQueue, pass, lastPass>>
       ELSE /\ preview' = [asked EXCEPT !.pc = "pass"]
            /\ lastPass' = Archive(pass)
            /\ PassResume([NoPass EXCEPT !.caller = "preview", !.blocks = chatBlocks,
                                         !.clean = ~AnyPutInFlight /\ ~ClearInFlight],
                          blockCache, promise, dbQueue)
    /\ UNCHANGED <<impl, blockCache, store, promise, segVars, hashVars, flowVars>>

\* script.js get_preview, after processHistoryForSummarization returned: the
\* index check and the lookup of the block's summary.
GetPreviewAfterPass ==
    LET blockIndex == preview.requested
        totalBlocks == Len(pass.blocks)
        ranged == [preview EXCEPT !.total = totalBlocks]
    IN
    /\ preview.pc = "pass"
    /\ pass.pc = "returned"
    /\ IF ~IndexInRange(blockIndex, totalBlocks)
       THEN /\ preview' = [ranged EXCEPT !.pc = "error",
                                         !.answer = ErrorAnswer(InvalidIndexError)]
            /\ ret' = Return("preview", NoHash, "error", NoValue, FALSE, FALSE, NoPromise)
            /\ UNCHANGED dbQueue
       ELSE PreviewLookup(ranged, blockIndex, pass.blocks[blockIndex + 1])
    /\ UNCHANGED <<impl, blockCache, store, promise, pass, lastPass, budget,
                   segVars, hashVars, flowVars>>

\* The durable read of the preview's lookup completes; the summary or the
\* placeholder is shown (index.js) or called back (script.js).  In index.js
\* a failed read rejects loadPreview, which nothing catches.
PreviewGetItemDone(i, outcome) ==
    LET r == dbQueue[i]
        summaryFromDB == SummaryFromDB(r.hash, outcome)
        \* currentIdx in loadPreview, blockIndex in get_preview
        idx == IF impl = "index" THEN preview.blockIndex ELSE preview.requested
    IN
    /\ r.kind = "get"
    /\ r.owner = "preview"
    /\ CanComplete(i)
    /\ dbQueue' = RemoveAt(dbQueue, i)
    /\ blockCache' = IF summaryFromDB \notin {Absent, Threw}
                     THEN CacheAfterDurableHit(blockCache, r.hash, summaryFromDB)
                     ELSE blockCache
    /\ preview' = IF summaryFromDB = Threw
                  THEN [preview EXCEPT !.pc = "threw"]
                  ELSE [preview EXCEPT !.pc = "shown", !.lookup = summaryFromDB,
                           !.answer = BlockAnswer(idx, preview.total, r.hash,
                                                  SummaryShown(summaryFromDB)),
                           !.textarea = SummaryPreview(@, r.hash,
                                                       SummaryShown(summaryFromDB))]
    /\ ret' = Return("preview", r.hash, summaryFromDB, Absent, TRUE,
                     outcome # "ok", r.expect)
    /\ UNCHANGED <<impl, store, promise, pass, lastPass, budget, segVars, hashVars, flowVars>>

\* index.js saveEditedSummary: Save is clicked with newSummary in the
\* editor; the button is enabled once a summary has been shown
\* (index.js:461).
SaveEditedSummary(newSummary) ==
    /\ impl = "index"
    /\ preview.textarea.hash # NoHash
    /\ UpdateSummary(preview.currentBlockHash, newSummary)

PreviewNext ==
    \/ \E t \in Summaries : SaveEditedSummary(t)
    \/ \E i \in 1..Len(dbQueue), o \in DbOutcomes : SetItemInDBDone(i, o)
    \/ \E e \in BOOLEAN, blocks \in ChatBlocks : ChatChanges(e, blocks)
    \/ RefreshPreview
    \/ PrevBlock
    \/ NextBlock
    \/ \E blocks \in ChatBlocks, g \in BOOLEAN, v \in PreviewIndices :
          GetPreview(blocks, g, v)
    \/ GetPreviewAfterPass
    \/ \E i \in 1..Len(dbQueue), o \in DbOutcomes : PreviewGetItemDone(i, o)
    \/ \E i \in 1..Len(dbQueue), o \in DbOutcomes : PassGetItemDone(i, o)
    \/ \E o \in ApiOutcomes, t \in Summaries : PassApiDone(o, t)
    \/ PassDelayDone
    \/ \E i \in 1..Len(dbQueue), o \in DbOutcomes : PassSetItemDone(i, o)

\* A session starts and previews are asked for; no other handler runs.
PreviewInit ==
    /\ impl \in {"index", "script"}
    /\ blockCache = EmptyCache
    /\ store \in PassStores
    /\ dbQueue = <<>>
    /\ ret = NoReturn
    /\ promise = [h \in Hashes |-> NoPromise]
    /\ pass = NoPass
    /\ lastPass = NoLastPass
    /\ budget = [limited |-> TRUE, env |-> MaxEnvCalls, passes |-> 0,
                 previews |-> MaxPreviews]
    /\ preview = NoPreview
    /\ SegIdle
    /\ HashIdle
    /\ FlowIdle

SpecPreview == PreviewInit /\ [][PreviewNext]_vars

(***************************************************************************)
(* Claims about the preview.                                               *)
(***************************************************************************)
\* The preview request has got past its index handling.
PreviewAnswered == preview.pc \in {"lookup", "shown", "error", "threw"}

\* C17: a preview request never invokes the summarization client and never
\* writes a summary to the cache; for a block whose hash is not cached it
\* returns a marked placeholder text.
C17_PreviewOnlyReads ==
    /\ pass.caller = "preview" =>
           \A i \in 1..Len(pass.log) : pass.log[i].api = "none"
    /\ \A i \in 1..Len(dbQueue) :
           dbQueue[i].kind = "put" => dbQueue[i].owner # "pass"
    /\ (preview.pc = "shown" /\ preview.lookup = Absent) =>
           preview.answer.summary = PreviewPlaceholder

\* C29: when the chat changes, the preview state (block index, number of
\* blocks, hash of the block shown, memoized allBlocks) is reset; the next
\* preview or navigation shows a block of the segmentation of the new chat.
C29_PreviewResetOnChatChange ==
    [][/\ preview'.chat # preview.chat =>
              /\ preview'.allBlocks = <<>>
              /\ preview'.blockIndex = 0
              /\ preview'.totalBlocks = 0
              /\ preview'.currentBlockHash = NoHash
       /\ (impl = "index" /\ budget'.previews < budget.previews
               /\ preview'.answer.kind = "block") =>
              /\ preview'.allBlocks = preview.chat.blocks
              /\ preview'.answer.totalBlocks = Len(preview.chat.blocks)
              /\ preview'.answer.blockHash =
                     preview.chat.blocks[preview'.answer.blockIndex + 1]]_vars

\* C18: a preview request with a block index outside [0, totalBlocks) is
\* answered with an error and with no block text, summary or hash.
C18_OutOfRangeIsAnError ==
    (/\ PreviewAnswered
     /\ preview.total > 0
     /\ preview.requested \notin 0..(preview.total - 1))
        => /\ preview.pc = "error"
           /\ preview.answer.kind = "error"
           /\ preview.answer.blockHash = NoValue
           /\ preview.answer.summary = NoValue

(***************************************************************************)
(* Triggers of summarization: index.js checkAndSummarize (after a message  *)
(* is rendered) and forceSummarize (the Summarize Now button); script.js   *)
(* onPromptInput and the get_preview handler.  The passes they start are   *)
(* followed through their awaits with the cache left out: a lookup hits or *)
(* misses, a save succeeds or fails.                                       *)
(***************************************************************************)
MaxRuns == 2            \* passes explored in flight at once

MaxMessageCount == 2    \* largest enumerated message count of the chat

MaxThreshold == 2       \* largest enumerated settings.triggerThreshold

Chats == {"A", "B"}     \* the chats of the host

\* The combined summary of a pass over chat c, when it is not empty.
SummaryOf(c) == "summary of " \o c

Trigger(kind, result) == [kind |-> kind, result |-> result]

\* A pass entering its loop over n blocks.  calls counts the invocations of
\* callSummarizationApi, issued lists the blocks a request was sent for,
\* lastResult is what the last invocation returned, count is
\* currentMessageCount of the checkAndSummarize that started the pass.
RunStart(caller, n, count) ==
    [caller |-> caller, n |-> n, i |-> 1, pc |-> "lookup", calls |-> 0,
     issued |-> <<>>, lastResult |-> NoValue, count |-> count,
     chat |-> host.chat]

\* A plausible slip: the request is sent whatever the settings say.
SendsRequestAlways(apiUrl) == TRUE

\* callSummarizationApi: if (!settings.apiUrl) return null
SendsRequest(apiUrl) == apiUrl

\* A plausible slip: the threshold is not looked at.
ThresholdReachedAlways(count, base, threshold) == TRUE

\* messagesSinceLastCheck >= settings.triggerThreshold
ThresholdReached(count, base, threshold) == count - base >= threshold

\* A plausible slip: the flag is left as it is when the pass ends.
InApiCallKept(flag) == flag

\* finally { inApiCall = false; ... }
InApiCallAfterFinally(flag) == FALSE

\* What a step of a run did: the pass returned, ended in an exception, or
\* goes on.
RunEnded(result) == [kind |-> "none", result |-> result]

\* The pass of run k has returned, with r its last state.  index.js:
\* checkAndSummarize goes on after its await and ends in its finally.
RunReturns(k, r) ==
    /\ runs' = RemoveAt(runs, k)
    /\ lastTrigger' = RunEnded("returned")
    /\ IF impl = "index"
       THEN /\ inApiCall' = InApiCallAfterFinally(inApiCall)
            /\ lastMessageCount' = r.count
            /\ \E combinedSummary \in {"", SummaryOf(r.chat)} :
                   /\ lastSummaryContent' =
                          IF combinedSummary # "" THEN combinedSummary
                          ELSE lastSummaryContent
                   /\ host' = [host EXCEPT !.prompt = combinedSummary,
                                           !.counted = r.chat]
       ELSE UNCHANGED <<inApiCall, lastMessageCount, lastSummaryContent, host>>

\* generateBlocks, summarizeAllBlocks or a cache function of run k ended in
\* an exception: checkAndSummarize's catch and finally.
RunThrew(k) ==
    /\ runs' = RemoveAt(runs, k)
    /\ lastTrigger' = RunEnded("threw")
    /\ inApiCall' = InApiCallAfterFinally(inApiCall)
    /\ host' = [host EXCEPT !.prompt = ""]
    /\ UNCHANGED <<lastMessageCount, lastSummaryContent>>

\* generateBlocks gave no block to run k: the else branch of
\* blocks.length > 0, and the finally.
RunNoBlocks(k, r) ==
    /\ runs' = RemoveAt(runs, k)
    /\ lastTrigger' = RunEnded("noblocks")
    /\ inApiCall' = InApiCallAfterFinally(inApiCall)
    /\ lastMessageCount' = r.count
    /\ host' = [host EXCEPT !.prompt = "", !.counted = r.chat]
    /\ UNCHANGED lastSummaryContent

\* Block r.i of run k is done: the loop goes to the next block or ends.
RunAdvance(k, r) ==
    IF r.i < r.n
    THEN /\ runs' = [runs EXCEPT ![k] = [r EXCEPT !.i = r.i + 1, !.pc = "lookup"]]
         /\ lastTrigger' = NoTrigger
         /\ UNCHANGED <<inApiCall, lastMessageCount, lastSummaryContent, host>>
    ELSE RunReturns(k, r)

\* The client gave no summary for block r.i of run k: index.js goes on,
\* script.js waits 200 ms first.
RunBlockFailed(k, r) ==
    IF impl = "index" THEN RunAdvance(k, r)
    ELSE /\ runs' = [runs EXCEPT ![k] = [r EXCEPT !.pc = "delay"]]
         /\ lastTrigger' = NoTrigger
         /\ UNCHANGED <<inApiCall, lastMessageCount, lastSummaryContent, host>>

\* index.js: generateBlocks returns to checkAndSummarize, or throws (its
\* await of getBlockHash rejects).
RunSegmentDone(k, outcome) ==
    LET r == runs[k] IN
    /\ r.pc = "segment"
    /\ IF outcome # "ok" THEN RunThrew(k)
       ELSE IF r.n = 0 THEN RunNoBlocks(k, r)
       ELSE /\ runs' = [runs EXCEPT ![k] = [r EXCEPT !.pc = "lookup"]]
            /\ lastTrigger' = NoTrigger
            /\ UNCHANGED <<inApiCall, lastMessageCount, lastSummaryContent, host>>
    /\ UNCHANGED <<settings, segVars, hashVars, cacheVars, passVars, promptVars, truncVars>>

\* The lookup of block i returns to the pass of run k.  On a miss
\* callSummarizationApi is called; without an endpoint URL it returns null
\* at once.
RunLookupDone(k, result) ==
    LET r == runs[k]
        called == [r EXCEPT !.calls = @ + 1]
    IN
    /\ r.pc = "lookup"
    /\ result = "threw" => impl = "index"
    /\ IF result = "hit" THEN RunAdvance(k, r)
       ELSE IF result = "threw" THEN RunThrew(k)
       ELSE IF SendsRequest(settings.apiUrl)
       THEN /\ runs' = [runs EXCEPT ![k] =
                   [called EXCEPT !.pc = "fetch", !.issued = Append(@, r.i)]]
            /\ lastTrigger' = NoTrigger
            /\ UNCHANGED <<inApiCall, lastMessageCount, lastSummaryContent, host>>
       ELSE RunBlockFailed(k, [called EXCEPT !.lastResult = Absent])
    /\ UNCHANGED <<settings, segVars, hashVars, cacheVars, passVars, promptVars, truncVars>>

\* The request of run k is answered (or fails).
RunFetchDone(k, outcome, text) ==
    LET r == runs[k]
        summary == CallSummarizationApi(outcome, text)
        answered == [r EXCEPT !.lastResult = summary]
    IN
    /\ r.pc = "fetch"
    /\ IF ~ApiFailed(summary)
       THEN /\ runs' = [runs EXCEPT ![k] = [answered EXCEPT !.pc = "save"]]
            /\ lastTrigger' = NoTrigger
            /\ UNCHANGED <<inApiCall, lastMessageCount, lastSummaryContent, host>>
       ELSE RunBlockFailed(k, answered)
    /\ UNCHANGED <<settings, segVars, hashVars, cacheVars, passVars, promptVars, truncVars>>

\* saveSummaryToCache returns to the pass of run k, or throws (index.js).
RunSaveDone(k, outcome) ==
    LET r == runs[k] IN
    /\ r.pc = "save"
    /\ IF PutResult(outcome) = Threw THEN RunThrew(k) ELSE RunAdvance(k, r)
    /\ UNCHANGED <<settings, segVars, hashVars, cacheVars, passVars, promptVars, truncVars>>

\* script.js: the timer after a failed block fires.
RunDelayDone(k) ==
    LET r == runs[k] IN
    /\ r.pc = "delay"
    /\ RunAdvance(k, r)
    /\ UNCHANGED <<settings, segVars, hashVars, cacheVars, passVars, promptVars, truncVars>>

\* index.js checkAndSummarize, entered with lastMessageCount = base, the
\* chat holding count messages that are neither system messages nor empty
\* and its history giving n blocks; to its await of generateBlocks.
CheckAndSummarize(kind, base, count, n) ==
    LET hostNow == [host EXCEPT !.counted = IF kind = "force" THEN "none" ELSE @] IN
    IF ~settings.enabled \/ inApiCall
    THEN /\ lastTrigger' = Trigger(kind, "dropped")
         /\ lastMessageCount' = base
         /\ host' = hostNow
         /\ UNCHANGED <<inApiCall, lastSummaryContent, runs>>
    ELSE IF ThresholdReached(count, base, settings.triggerThreshold)
    THEN /\ Len(runs) < MaxRuns
         /\ inApiCall' = TRUE
         /\ runs' = Append(runs, [RunStart(kind, n, count) EXCEPT !.pc = "segment"])
         /\ lastTrigger' = Trigger(kind, "started")
         /\ lastMessageCount' = base
         /\ host' = hostNow
         /\ UNCHANGED lastSummaryContent
    ELSE /\ lastTrigger' = Trigger(kind, "below")
         /\ lastMessageCount' = base
         /\ host' = [hostNow EXCEPT !.prompt = lastSummaryContent]
         /\ UNCHANGED <<inApiCall, lastSummaryContent, runs>>

\* index.js onMessageRendered: checkAndSummarize runs 200 ms later.
MessageRendered(count, n) ==
    /\ impl = "index"
    /\ CheckAndSummarize("rendered", lastMessageCount, count, n)
    /\ UNCHANGED <<settings, segVars, hashVars, cacheVars, passVars, promptVars, truncVars>>

\* index.js forceSummarize; the button is disabled while inApiCall is set
\* (index.js:306-307, 334-335).
ForceSummarize(count, n) ==
    /\ impl = "index"
    /\ ~inApiCall
    /\ CheckAndSummarize("force", 0, count, n)
    /\ UNCHANGED <<settings, segVars, hashVars, cacheVars, passVars, promptVars, truncVars>>

\* script.js onPromptInput, to its await of processHistoryForSummarization.
OnPromptInput(n) ==
    /\ impl = "script"
    /\ IF ~settings.enabled \/ ~settings.apiUrl
       THEN lastTrigger' = Trigger("prompt", "dropped") /\ UNCHANGED runs
       ELSE IF n = 0
       THEN lastTrigger' = Trigger("prompt", "noblocks") /\ UNCHANGED runs
       ELSE /\ Len(runs) < MaxRuns
            /\ runs' = Append(runs, RunStart("prompt", n, 0))
            /\ lastTrigger' = Trigger("prompt", "started")
    /\ UNCHANGED <<settings, inApiCall, lastMessageCount, lastSummaryContent, host,
                   segVars, hashVars, cacheVars, passVars, promptVars, truncVars>>

\* script.js get_preview, to its await of processHistoryForSummarization.
PreviewRequested(n) ==
    /\ impl = "script"
    /\ IF n = 0
       THEN lastTrigger' = Trigger("preview", "noblocks") /\ UNCHANGED runs
       ELSE /\ Len(runs) < MaxRuns
            /\ runs' = Append(runs, RunStart("preview", n, 0))
            /\ lastTrigger' = Trigger("preview", "started")
    /\ UNCHANGED <<settings, inApiCall, lastMessageCount, lastSummaryContent, host,
                   segVars, hashVars, cacheVars, passVars, promptVars, truncVars>>

\* index.js onChatChanged: the host has opened chat c.
OnChatChanged(c) ==
    /\ impl = "index"
    /\ c # host.chat
    /\ host' = [host EXCEPT !.chat = c, !.prompt = lastSummaryContent]
    /\ lastTrigger' = Trigger("chat", "changed")
    /\ UNCHANGED <<settings, inApiCall, lastMessageCount, lastSummaryContent, runs,
                   segVars, hashVars, cacheVars, passVars, promptVars, truncVars>>

TrigNext ==
    \/ \E c \in Chats : OnChatChanged(c)
    \/ \E c \in 0..MaxMessageCount, n \in 0..MaxBlocks : MessageRendered(c, n)
    \/ \E c \in 0..MaxMessageCount, n \in 0..MaxBlocks : ForceSummarize(c, n)
    \/ \E n \in 0..MaxBlocks : OnPromptInput(n)
    \/ \E n \in 0..MaxBlocks : PreviewRequested(n)
    \/ \E k \in 1..Len(runs), o \in {"ok", "threw"} : RunSegmentDone(k, o)
    \/ \E k \in 1..Len(runs), res \in {"hit", "miss", "threw"} : RunLookupDone(k, res)
    \/ \E k \in 1..Len(runs), o \in ApiOutcomes, t \in Summaries : RunFetchDone(k, o, t)
    \/ \E k \in 1..Len(runs), o \in DbOutcomes : RunSaveDone(k, o)
    \/ \E k \in 1..Len(runs) : RunDelayDone(k)

\* The extension or plugin has loaded, with any settings.
TrigInit ==
    /\ impl \in {"index", "script"}
    /\ blockCache = <<>>
    /\ store = <<>>
    /\ dbQueue = <<>>
    /\ ret = NoReturn
    /\ promise = <<>>
    /\ settings \in [enabled : BOOLEAN, apiUrl : BOOLEAN,
                     triggerThreshold : 1..MaxThreshold]
    /\ inApiCall = FALSE
    /\ lastMessageCount = 0
    /\ lastSummaryContent = ""
    /\ runs = <<>>
    /\ lastTrigger = NoTrigger
    /\ host = [NoHost EXCEPT !.chat = "A"]
    /\ SegIdle
    /\ HashIdle
    /\ PassIdle
    /\ PromptIdle
    /\ TruncIdle

SpecTrigger == TrigInit /\ [][TrigNext]_vars

(***************************************************************************)
(* Claims about the triggers.                                              *)
(***************************************************************************)
\* The requests to the summarization endpoint that are outstanding.
Outstanding == {k \in 1..Len(runs) : runs[k].pc = "fetch"}

\* C21: at most one summarization pass is in flight, and a trigger that
\* arrives while a pass is in flight starts no pass and changes no module
\* state.
C21_OnePassAtATime ==
    [][/\ Len(runs') <= 1
       /\ (Len(runs) > 0 /\ lastTrigger'.kind # "none") =>
              UNCHANGED <<runs, inApiCall, lastMessageCount, lastSummaryContent>>]_vars

\* C22: at most one request to the summarization endpoint is outstanding at
\* any time, and within a pass the requests are issued in increasing block
\* index.
C22_OneRequestOutstanding ==
    /\ Cardinality(Outstanding) <= 1
    /\ \A k \in 1..Len(runs) :
           \A a, b \in 1..Len(runs[k].issued) :
               a < b => runs[k].issued[a] < runs[k].issued[b]

\* C23: with no endpoint URL configured, callSummarizationApi sends no
\* request and returns a failure result (null), for every block it is
\* called for.
C23_NoRequestWithoutUrl ==
    ~settings.apiUrl =>
        \A k \in 1..Len(runs) :
            /\ runs[k].issued = <<>>
            /\ runs[k].pc # "fetch"
            /\ runs[k].calls > 0 => runs[k].lastResult = Absent

\* Without an endpoint URL, a pass has called callSummarizationApi for two
\* blocks.
C23_Witness ==
    /\ ~settings.apiUrl
    /\ \E k \in 1..Len(runs) :
           /\ runs[k].calls = 2
           /\ runs[k].issued = <<>>
           /\ runs[k].lastResult = Absent

(***************************************************************************)
(* SpecTrunc: script.js onPromptInput, called again and again on the same  *)
(* context -- its early returns, the budget left for the history, the      *)
(* backwards walk that keeps the most recent messages, and the chat it     *)
(* puts into the context.  The summarization pass in the middle is left    *)
(* out: all that is used of it is whether it gave a summary and how long   *)
(* the substituted template is.  A text is the sequence of its characters; *)
(* id is the identity of the message object (its place in the first        *)
(* context.chat, 0 for a summary prompt).                                  *)
(***************************************************************************)
MaxTruncMsgs == 3       \* longest enumerated chat

MaxHistorySize == 3     \* largest enumerated settings.historySize

MaxPromptCalls == 2     \* onPromptInput calls on one context

TruncNames == {<<>>, <<"A", "l">>}

TruncTexts == {<<>>, <<"a">>, <<"c", "c", "c">>}

TemplateLengths == {0, 3, 9}    \* enumerated lengths of summaryPromptPart

TruncBodies == [name : TruncNames, mes : TruncTexts, is_system : BOOLEAN]

TruncChats ==
    {[k \in DOMAIN c |-> [id |-> k, name |-> c[k].name, mes |-> c[k].mes,
                          is_system |-> c[k].is_system,
                          is_summary_prompt |-> FALSE]] :
        c \in SeqsUpTo(TruncBodies, MaxTruncMsgs)}

\* A plausible slip: the budget is not clamped at zero.
RemainingUnclamped(targetHistoryChars, templateChars) ==
    targetHistoryChars - templateChars

\* Math.max(0, targetHistoryChars - templateChars)
RemainingCharsForHistory(targetHistoryChars, templateChars) ==
    IF targetHistoryChars - templateChars > 0
    THEN targetHistoryChars - templateChars ELSE 0

\* (message.name ? message.name.length + 2 : 0) + (message.mes ? message.mes.length : 0)
MsgChars(message) ==
    (IF Len(message.name) > 0 THEN Len(message.name) + 2 ELSE 0) + Len(message.mes)

\* A plausible slip: the message is tested on its own, not on top of what
\* is kept already.
FitsAlone(currentChars, msgChars, remaining) == msgChars <= remaining

\* currentChars + msgChars <= remainingCharsForHistory
Fits(currentChars, msgChars, remaining) == currentChars + msgChars <= remaining

\* chatHistory of onPromptInput.
TruncHistory == FilterNonSystem(truncIn.chat)

\* blockSummaries.length > 0: the history has a message with text, so the
\* segmentation gives a block and the pass a summary (or a placeholder).
HasSummaries(chatHistory) ==
    \E k \in 1..Len(chatHistory) : MessageLength(chatHistory[k]) > 0

\* summarySystemPrompt
SummarySystemPrompt ==
    [id |-> 0, name |-> <<"S", "y", "s", "t", "e", "m">>, mes |-> <<"p">>,
     is_system |-> TRUE, is_summary_prompt |-> TRUE]

\* A plausible slip: an earlier summary prompt is taken for a system prompt
\* of the host.
IsSystemPrompt(msg) == msg.is_system

\* msg.is_system && !msg.is_summary_prompt
IsOriginalSystemPrompt(msg) == msg.is_system /\ ~msg.is_summary_prompt

\* finalChat: the system prompts of the host with the summary prompt after
\* the first of them (in front when there is none), then the kept history.
FinalChat(chat, truncatedHistory) ==
    LET system == SelectSeq(chat, IsOriginalSystemPrompt) IN
    (IF system # <<>>
     THEN <<Head(system), SummarySystemPrompt>> \o Tail(system)
     ELSE <<SummarySystemPrompt>>)
    \o truncatedHistory

\* Lines 210-234: onPromptInput is entered (enabled, endpoint configured)
\* and returns the context as it is when the history is empty or the pass
\* gave no summary.
PromptInputCalled ==
    /\ truncPc = "called"
    /\ truncPc' = IF TruncHistory # <<>> /\ HasSummaries(TruncHistory)
                  THEN "budget" ELSE "returned"
    /\ UNCHANGED <<truncIn, truncSt, segVars, hashVars, cacheVars, passVars, trigVars, promptVars>>

\* Lines 242-249: the budget, and the locals of the loop.
TruncBudget ==
    /\ truncPc = "budget"
    /\ truncSt' = [remaining |-> RemainingCharsForHistory(truncIn.historySize * 4,
                                                          truncIn.templateChars),
                   i |-> Len(TruncHistory), currentChars |-> 0,
                   truncatedHistory |-> <<>>, broke |-> FALSE]
    /\ truncPc' = "loop"
    /\ UNCHANGED <<truncIn, segVars, hashVars, cacheVars, passVars, trigVars, promptVars>>

\* One iteration of the loop: the message is put in front of the kept ones,
\* or the loop is left.
TruncIteration ==
    LET message == TruncHistory[truncSt.i]
        msgChars == MsgChars(message)
    IN
    /\ truncPc = "loop"
    /\ truncSt.i >= 1
    /\ IF Fits(truncSt.currentChars, msgChars, truncSt.remaining)
       THEN /\ truncSt' = [truncSt EXCEPT
                   !.truncatedHistory = <<message>> \o @,
                   !.currentChars = @ + msgChars,
                   !.i = @ - 1]
            /\ UNCHANGED truncPc
       ELSE /\ truncSt' = [truncSt EXCEPT !.broke = TRUE]
            /\ truncPc' = "done"
    /\ UNCHANGED <<truncIn, segVars, hashVars, cacheVars, passVars, trigVars, promptVars>>

\* The loop condition i >= 0 (of the 0-based index) fails.
TruncExit ==
    /\ truncPc = "loop"
    /\ truncSt.i < 1
    /\ truncPc' = "done"
    /\ UNCHANGED <<truncIn, truncSt, segVars, hashVars, cacheVars, passVars, trigVars, promptVars>>

\* Lines 272-311: the new chat is built and put into the context.
InjectSummaryPrompt ==
    /\ truncPc = "done"
    /\ truncIn' = [truncIn EXCEPT
           !.chat = FinalChat(truncIn.chat, truncSt.truncatedHistory)]
    /\ truncPc' = "returned"
    /\ UNCHANGED <<truncSt, segVars, hashVars, cacheVars, passVars, trigVars, promptVars>>

\* The host calls onPromptInput again with the context it got back.
PromptInputAgain ==
    /\ truncPc = "returned"
    /\ truncIn.calls < MaxPromptCalls
    /\ truncIn' = [truncIn EXCEPT !.calls = @ + 1]
    /\ truncSt' = <<>>
    /\ truncPc' = "called"
    /\ UNCHANGED <<segVars, hashVars, cacheVars, passVars, trigVars, promptVars>>

TruncNext ==
    \/ PromptInputCalled
    \/ TruncBudget
    \/ TruncIteration
    \/ TruncExit
    \/ InjectSummaryPrompt
    \/ PromptInputAgain

\* onPromptInput is called for the first time on a context; any chat, any
\* budget.  original keeps the chat of that first call.
TruncInit ==
    /\ truncPc = "called"
    /\ \E chat \in TruncChats, historySize \in 0..MaxHistorySize,
          templateChars \in TemplateLengths :
           truncIn = [chat |-> chat, original |-> chat, historySize |-> historySize,
                      templateChars |-> templateChars, calls |-> 1]
    /\ truncSt = <<>>
    /\ SegIdle
    /\ HashIdle
    /\ CacheIdle
    /\ PassIdle
    /\ TrigIdle
    /\ PromptIdle

SpecTrunc == TruncInit /\ [][TruncNext]_vars

(***************************************************************************)
(* Claims about the truncation.                                            *)
(***************************************************************************)
RECURSIVE TotalChars(_)
\* The sum of the code's msgChars over the messages of kept.
TotalChars(kept) ==
    IF kept = <<>> THEN 0 ELSE MsgChars(Head(kept)) + TotalChars(Tail(kept))

\* The cost of a message as the specification words it.
StatedCost(message) == Len(message.name) + 2 + Len(message.mes)

RECURSIVE TotalStatedCost(_)
TotalStatedCost(kept) ==
    IF kept = <<>> THEN 0 ELSE StatedCost(Head(kept)) + TotalStatedCost(Tail(kept))

\* The last n elements of s.
Suffix(s, n) == SubSeq(s, Len(s) - n + 1, Len(s))

TruncWalking == truncPc \in {"loop", "done"}

\* C26 as stated: the kept messages are a contiguous suffix of the
\* non-system history in its order, and the sum over them of
\* len(name) + 2 + len(text) is at most remainingBudget.
C26_KeptSuffixWithinBudget ==
    TruncWalking =>
        /\ truncSt.truncatedHistory =
               Suffix(TruncHistory, Len(truncSt.truncatedHistory))
        /\ TotalStatedCost(truncSt.truncatedHistory) <= truncSt.remaining

\* C26 amended: the kept messages are a contiguous suffix of the non-system
\* history in its order, and the sum over them of the cost the code counts
\* (len(text), plus len(name) + 2 only for a message with a non-empty name)
\* is at most remainingBudget.
C26_KeptSuffixWithinCountedBudget ==
    TruncWalking =>
        /\ Len(truncSt.truncatedHistory) = Len(TruncHistory) - truncSt.i
        /\ truncSt.truncatedHistory =
               Suffix(TruncHistory, Len(truncSt.truncatedHistory))
        /\ truncSt.currentChars = TotalChars(truncSt.truncatedHistory)
        /\ TotalChars(truncSt.truncatedHistory) <= truncSt.remaining

\* The walk kept a named message and stopped at the message before it,
\* which did not fit, with a system message in the chat between the two.
C26_Witness ==
    /\ truncPc = "done"
    /\ truncSt.broke
    /\ Len(truncSt.truncatedHistory) = 1
    /\ Len(truncSt.truncatedHistory[1].name) > 0
    /\ truncSt.truncatedHistory[1].id - TruncHistory[Len(TruncHistory) - 1].id = 2

\* C27: remainingBudget is max(0, historyBudget * 4 - len(substituted
\* template)), never negative; the walk keeps as many trailing messages as
\* fit (all of them, or the newest dropped one would exceed the budget); and
\* when the template alone reaches the budget no message of non-zero cost is
\* kept.
C27_BudgetAndMaximalSuffix ==
    TruncWalking =>
        LET target == truncIn.historySize * 4
            kept == truncSt.truncatedHistory
            nKept == Len(kept)
        IN
        /\ truncSt.remaining >= 0
        /\ truncSt.remaining =
               (IF target - truncIn.templateChars >= 0
                THEN target - truncIn.templateChars ELSE 0)
        /\ truncPc = "done" =>
               \/ nKept = Len(TruncHistory)
               \/ TotalChars(kept) + MsgChars(TruncHistory[Len(TruncHistory) - nKept])
                      > truncSt.remaining
        /\ truncIn.templateChars >= target =>
               \A k \in 1..nKept : MsgChars(kept[k]) = 0

\* The template takes part of the budget, and the walk stopped at a message
\* that did not fit on top of the one it kept.
C27_Witness ==
    /\ truncPc = "done"
    /\ truncSt.broke
    /\ truncIn.templateChars > 0
    /\ truncSt.remaining > 0
    /\ Len(truncSt.truncatedHistory) = 1
    /\ MsgChars(TruncHistory[Len(TruncHistory) - 1]) <= truncSt.remaining

(***************************************************************************)
(* SpecPrompt: the block summaries of a pass are joined and put into the   *)
(* prompt template (index.js checkAndSummarize and updatePromptWithSummary,*)
(* script.js onPromptInput).  A text is the sequence of its characters,    *)
(* with the placeholder {{summary_content}} of a template taken as one.    *)
(***************************************************************************)
MaxTemplateLen == 3     \* longest enumerated settings.promptTemplate

MaxSummaryLen == 2      \* longest enumerated block summary

MaxPromptBlocks == 2    \* most block summaries of an enumerated pass

Placeholder == "{{summary_content}}"

Newline == "\n"

TemplateChars == {"t", Placeholder}

SummaryChars == {"s", "$", "&", "'", " "}

\* '\n\n'
BlankLine == <<Newline, Newline>>

IsWhitespace(c) == c \in {" ", Newline}

RECURSIVE TrimStart(_)
TrimStart(text) ==
    IF text # <<>> /\ IsWhitespace(Head(text)) THEN TrimStart(Tail(text)) ELSE text

RECURSIVE TrimEnd(_)
TrimEnd(text) ==
    IF text # <<>> /\ IsWhitespace(text[Len(text)])
    THEN TrimEnd(SubSeq(text, 1, Len(text) - 1)) ELSE text

\* String.prototype.trim
Trim(text) == TrimEnd(TrimStart(text))

\* String.prototype.indexOf of a one-character pattern, 1-based; 0 if the
\* pattern does not occur.
IndexOf(text, c) ==
    IF \E k \in 1..Len(text) : text[k] = c
    THEN CHOOSE k \in 1..Len(text) :
             text[k] = c /\ \A j \in 1..(k - 1) : text[j] # c
    ELSE 0

RECURSIVE GetSubstitution(_, _, _, _)
\* The replacement text of String.prototype.replace with a string
\* pattern: $$ stands for $, $& for the matched text, $' for the text after
\* the match; any other $ stands for itself.  (The pattern for the text
\* before the match needs a character that SummaryChars leaves out.)
GetSubstitution(replacement, matched, before, after) ==
    IF replacement = <<>> THEN <<>>
    ELSE IF Head(replacement) = "$" /\ Len(replacement) >= 2
              /\ replacement[2] \in {"$", "&", "'"}
    THEN (CASE replacement[2] = "$" -> <<"$">>
            [] replacement[2] = "&" -> matched
            [] OTHER -> after)
         \o GetSubstitution(SubSeq(replacement, 3, Len(replacement)),
                            matched, before, after)
    ELSE <<Head(replacement)>>
         \o GetSubstitution(Tail(replacement), matched, before, after)

\* template.replace('{{summary_content}}', replacement): the first
\* occurrence of the placeholder is replaced.
ReplacePlaceholder(template, replacement) ==
    LET k == IndexOf(template, Placeholder)
        before == SubSeq(template, 1, k - 1)
        after == SubSeq(template, k + 1, Len(template))
    IN
    IF k = 0 THEN template
    ELSE before \o GetSubstitution(replacement, <<Placeholder>>, before, after)
                \o after

\* index.js updatePromptWithSummary: the text handed to setExtensionPrompt.
UpdatePromptWithSummary(template, summaryText) ==
    IF summaryText # <<>> /\ Trim(summaryText) # <<>>
    THEN ReplacePlaceholder(template, Trim(summaryText))
    ELSE <<>>

\* blockSummaries.join('\n\n'), trimmed in index.js.
PromptJoin ==
    /\ promptPc = "join"
    /\ promptOut' = [combinedSummary |->
                         IF impl = "index"
                         THEN Trim(Join(promptIn.blockSummaries, BlankLine))
                         ELSE Join(promptIn.blockSummaries, BlankLine),
                     fragment |-> <<>>]
    /\ promptPc' = "substitute"
    /\ UNCHANGED <<promptIn, segVars, hashVars, cacheVars, passVars, trigVars, truncVars>>

\* The prompt: index.js updatePromptWithSummary(combinedSummary), or
\* updatePromptWithSummary('') when combinedSummary is empty; script.js
\* summaryPromptPart.
PromptSubstitute ==
    /\ promptPc = "substitute"
    /\ promptOut' = [promptOut EXCEPT !.fragment =
           IF impl = "index"
           THEN UpdatePromptWithSummary(promptIn.template, promptOut.combinedSummary)
           ELSE ReplacePlaceholder(promptIn.template, promptOut.combinedSummary)]
    /\ promptPc' = "done"
    /\ UNCHANGED <<promptIn, segVars, hashVars, cacheVars, passVars, trigVars, truncVars>>

PromptNext == PromptJoin \/ PromptSubstitute

\* A pass has returned its block summaries; any template.
PromptInit ==
    /\ impl \in {"index", "script"}
    /\ blockCache = <<>>
    /\ store = <<>>
    /\ dbQueue = <<>>
    /\ ret = NoReturn
    /\ promise = <<>>
    /\ promptPc = "join"
    /\ promptIn \in [template : SeqsUpTo(TemplateChars, MaxTemplateLen),
                     blockSummaries :
                         NonEmptySeqsUpTo(SeqsUpTo(SummaryChars, MaxSummaryLen),
                                          MaxPromptBlocks)]
    /\ promptOut = <<>>
    /\ SegIdle
    /\ HashIdle
    /\ PassIdle
    /\ TrigIdle
    /\ TruncIdle

SpecPrompt == PromptInit /\ [][PromptNext]_vars

(***************************************************************************)
(* Claims about the composition of the prompt.                             *)
(***************************************************************************)
\* The template with the text put in place of its placeholder, as it is.
WithSummaryInPlace(template, text) ==
    LET k == IndexOf(template, Placeholder) IN
    IF k = 0 THEN template
    ELSE SubSeq(template, 1, k - 1) \o text \o SubSeq(template, k + 1, Len(template))

\* C28: combinedSummary is the block summaries joined in block order with a
\* blank line between them, and the prompt fragment is the template with
\* its placeholder replaced by combinedSummary; a template without the
\* placeholder is the fragment as it is.
C28_FragmentIsTemplateWithSummary ==
    promptPc = "done" =>
        /\ promptOut.combinedSummary = Join(promptIn.blockSummaries, BlankLine)
        /\ promptOut.fragment =
               WithSummaryInPlace(promptIn.template, promptOut.combinedSummary)

\* C31: checkAndSummarize starts a pass only when the extension is enabled,
\* no pass is in flight and the count of messages that are neither system
\* messages nor empty, less lastMessageCount, reaches triggerThreshold; a
\* trigger that starts no pass leads to no client call; and a pass that
\* returns sets lastMessageCount to the count seen when it started.
C31_TriggerRule ==
    [][impl = "index" =>
          /\ Len(runs') > Len(runs) =>
                 /\ settings.enabled
                 /\ ~inApiCall
                 /\ runs = <<>>
                 /\ runs'[1].count - lastMessageCount' >= settings.triggerThreshold
          /\ (lastTrigger'.kind # "none" /\ lastTrigger'.result # "started") =>
                 UNCHANGED runs
          /\ lastTrigger'.result = "returned" =>
                 lastMessageCount' = runs[1].count]_vars

\* A pass started at the largest count, under the largest threshold, has
\* returned, and lastMessageCount is that count.
C31_Witness ==
    /\ impl = "index"
    /\ lastTrigger.result = "returned"
    /\ lastMessageCount = MaxMessageCount
    /\ settings.triggerThreshold = MaxThreshold
    /\ ~inApiCall

\* The steps of the passes in flight: what the durable store, the endpoint
\* and the timer do once they are asked.
RunSteps ==
    \/ \E k \in 1..Len(runs), o \in {"ok", "threw"} : RunSegmentDone(k, o)
    \/ \E k \in 1..Len(runs), res \in {"hit", "miss", "threw"} : RunLookupDone(k, res)
    \/ \E k \in 1..Len(runs), o \in ApiOutcomes, t \in Summaries : RunFetchDone(k, o, t)
    \/ \E k \in 1..Len(runs), o \in DbOutcomes : RunSaveDone(k, o)
    \/ \E k \in 1..Len(runs) : RunDelayDone(k)

\* Every external call of a pass in flight returns or fails in the end.
SpecTriggerFair == TrigInit /\ [][TrigNext]_vars /\ WF_vars(RunSteps)

\* C32: a started pass ends and inApiCall is reset to false, also when
\* segmentation, a cache operation or the client throws; the flag never
\* stays true forever.
C32_PassEndsAndFlagResets ==
    (impl = "index" /\ inApiCall) ~> (~inApiCall /\ runs = <<>>)

\* A pass has ended in an exception and the flag is down.
C32_Witness ==
    /\ impl = "index"
    /\ lastTrigger.result = "threw"
    /\ ~inApiCall
    /\ runs = <<>>

\* C36: forceSummarize, with the extension enabled and no pass in flight,
\* always starts a pass, whatever the number of messages and the threshold.
C36_ForceAlwaysStarts ==
    [][(impl = "index" /\ lastTrigger'.kind = "force"
            /\ settings.enabled /\ ~inApiCall) =>
          /\ lastTrigger'.result = "started"
          /\ Len(runs') = Len(runs) + 1]_vars

\* C37: the summary in the extension prompt is derived from the active chat:
\* after a chat change the prompt does not carry the previous chat's
\* summary, and the previous chat's lastMessageCount does not keep the new
\* chat from being summarized.
C37_PromptFollowsActiveChat ==
    impl = "index" =>
        /\ host.prompt \in {"", SummaryOf(host.chat)}
        /\ lastMessageCount > 0 => host.counted = host.chat

(***************************************************************************)
(* Further claims about the passes of SpecPass.                            *)
(***************************************************************************)
\* The texts a pass reports for a block whose client call failed.
FailureTexts ==
    {HttpErrorText, NetworkErrorText}
        \cup {FailedPlaceholder(n) : n \in 1..MaxBlocks}
        \cup {"[Error summarizing block " \o ToString(n) \o "]" : n \in 1..MaxBlocks}

\* C33: a pass writes no cache entry for a block whose client call failed:
\* the failure text is what the pass reports for the block, and it is
\* neither in the in-memory layer, nor in the durable store, nor on its way
\* there; so a later lookup of the block cannot hit on it.
C33_FailureNeverCached ==
    /\ \A h \in Hashes :
           /\ blockCache[h] \notin FailureTexts
           /\ store[h] \notin FailureTexts
    /\ \A q \in 1..Len(dbQueue) :
           dbQueue[q].kind = "put" => dbQueue[q].summary \notin FailureTexts
    /\ \A i \in Processed :
           pass.log[i].api = "failed" =>
               /\ pass.blockSummaries[i] \in FailureTexts
               /\ ~pass.log[i].writeFailed

\* The client failed for the first block in one pass; the next pass over the
\* same blocks missed on it again and called the client again.
C33_Witness ==
    /\ PassReturned
    /\ budget.passes = 0
    /\ lastPass.blockSummaries # <<>>
    /\ lastPass.blockSummaries[1] \in FailureTexts
    /\ pass.log[1].lookup = Absent
    /\ pass.log[1].calls = 1
    /\ pass.log[1].api = "failed"

(***************************************************************************)
(* SpecOk: the cache handlers of Spec with a durable store in which no     *)
(* operation fails.                                                        *)
(***************************************************************************)
NextOk ==
    \/ \E h \in Hashes : GetSummaryFromCache(h)
    \/ \E i \in 1..Len(dbQueue) : GetItemFromDBDone(i, "ok")
    \/ \E h \in Hashes \cup {NoHash}, t \in Summaries \cup {NotAString} :
          UpdateSummary(h, t)
    \/ \E i \in 1..Len(dbQueue) : SetItemInDBDone(i, "ok")
    \/ ClearCache
    \/ \E i \in 1..Len(dbQueue) : ClearDBStoreDone(i, "ok")
    \/ \E i \in 1..Len(dbQueue) : ReaddirDone(i, "ok")
    \/ \E i \in 1..Len(dbQueue) : UnlinkDone(i, "ok")
    \/ Restart

SpecOk == Init /\ [][NextOk]_vars

\* C34: when no cache operation is in flight (and no durable operation has
\* failed), every hash held by the in-memory layer is held by the durable
\* store with the same summary.
C34_MemoryAgreesWithStore ==
    dbQueue = <<>> =>
        \A h \in Hashes : blockCache[h] # Absent => store[h] = blockCache[h]

\* C35: the text stored by saveEditedSummary is stored under the hash of the
\* block whose summary was in the editor when Save was clicked, also when a
\* loadPreview for another block is still waiting for its lookup.
C35_SavedUnderDisplayedBlock ==
    [][(impl = "index" /\ budget'.env < budget.env /\ ret'.op = "call") =>
          ret'.hash = preview.textarea.hash]_vars

(***************************************************************************)
(* A further claim about the segmentation of SpecSeg.                      *)
(***************************************************************************)
\* What the segmentation returns for the messages its loop has consumed.
BlocksSoFar(st) == IF segPc = "genLoop" THEN GenFinish(st) ELSE ScriptFinish(st)

AllButLast(s) == SubSeq(s, 1, Len(s) - 1)

IsPrefixOf(a, b) == Len(a) <= Len(b) /\ SubSeq(b, 1, Len(a)) = a

BlockHashes(blocks) == {blocks[i].hash : i \in 1..Len(blocks)}

\* C38: the blocks of a history with one more message start with all blocks
\* of the history but the last, messages and hashes alike; at most one hash
\* of the shorter history's blocks is lost.
C38_PrefixStable ==
    [][(segPc \in {"genLoop", "scriptLoop"} /\ segIdx' = segIdx + 1) =>
          /\ IsPrefixOf(AllButLast(BlocksSoFar(segSt)), BlocksSoFar(segSt'))
          /\ Cardinality(BlockHashes(BlocksSoFar(segSt))
                             \ BlockHashes(BlocksSoFar(segSt'))) <= 1]_vars

\* The loop has closed a block and has put a second message on the block
\* it is filling.
C38_Witness ==
    /\ segPc \in {"genLoop", "scriptLoop"}
    /\ Len(segSt.blocks) >= 1
    /\ Len(segSt.currentBlock) >= 2

(***************************************************************************)
(* A claim about the chat onPromptInput puts into the context.             *)
(***************************************************************************)
SummaryPrompts(chat) == SelectSeq(chat, LAMBDA m : m.is_summary_prompt)

\* The system prompts of the host in chat, in order.
HostSystemPrompts(chat) == SelectSeq(chat, LAMBDA m : m.is_system /\ ~m.is_summary_prompt)

\* The summary prompt stands right after the first system prompt of the
\* host, or in front when the host has none.
SummaryPromptInPlace(chat) ==
    IF HostSystemPrompts(truncIn.original) # <<>>
    THEN /\ Len(chat) >= 2
         /\ chat[1] = Head(HostSystemPrompts(truncIn.original))
         /\ chat[2].is_summary_prompt
    ELSE /\ Len(chat) >= 1
         /\ chat[1].is_summary_prompt

\* C39 as stated: after any number of onPromptInput calls on a context whose
\* history is not empty, context.chat holds exactly one summary prompt,
\* right after the first system prompt of the host or in front, and every
\* system prompt of the host exactly once.
C39_OneSummaryPrompt ==
    (truncPc = "returned" /\ FilterNonSystem(truncIn.original) # <<>>) =>
        /\ Len(SummaryPrompts(truncIn.chat)) = 1
        /\ SummaryPromptInPlace(truncIn.chat)
        /\ HostSystemPrompts(truncIn.chat) = HostSystemPrompts(truncIn.original)

\* C39 amended: context.chat holds every system prompt of the host exactly
\* once and at most one summary prompt; it holds exactly one, in its place,
\* when the history of the first call had a message with text, and is the
\* chat of the first call when it had none.
C39_OneSummaryPromptOnceSummarized ==
    truncPc = "returned" =>
        /\ HostSystemPrompts(truncIn.chat) = HostSystemPrompts(truncIn.original)
        /\ IF HasSummaries(FilterNonSystem(truncIn.original))
           THEN /\ Len(SummaryPrompts(truncIn.chat)) = 1
                /\ SummaryPromptInPlace(truncIn.chat)
           ELSE truncIn.chat = truncIn.original

\* The second call has returned, with its own summary prompt after the
\* host's system prompt and a message of the history kept.
C39_Witness ==
    /\ truncPc = "returned"
    /\ truncIn.calls = MaxPromptCalls
    /\ truncSt # <<>>
    /\ HostSystemPrompts(truncIn.original) # <<>>
    /\ Len(SummaryPrompts(truncIn.chat)) = 1
    /\ Len(truncIn.chat) >= 3

====
